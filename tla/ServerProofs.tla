---------------------------- MODULE ServerProofs ----------------------------
(* Proofs about the process, its pool and the locks of its requests, for any  *)
(* number of requests, any pool, any commands on any rows and any number of   *)
(* migrations.                                                                *)
EXTENDS Server, FiniteSetTheorems, SequenceTheorems, TLAPS

USE CommandsAssumption, SizesAssumption

RequestFields == {"pc", "job", "step", "left", "waits", "held", "stale", "tries"}

IsRequest(x) == x = [f \in RequestFields |-> x[f]]

(* A request in flight is a whole record, of a command it may be, and locks   *)
(* rows only on a connection.                                                 *)
RequestOK(r) ==
    Active(r) =>
        /\ IsRequest(req[r])
        /\ req[r].job \in Jobs[r] /\ req[r].tries \in 1 .. MaxTries
        /\ req[r].held # {} => HoldsConnection(r)

Holding == {r \in Requests : HoldsConnection(r)}

Pooled == Cardinality(Holding) <= PoolSize

SchemaOK ==
    /\ phase \in Phases /\ signalled \in BOOLEAN
    /\ schema \in [version : 0 .. LastVersion, dirty : BOOLEAN]

(* What a start-up that got as far as the listener leaves behind.             *)
Migrated ==
    phase \in {"listening", "serving"} =>
        ~schema.dirty /\ (schema.version = LastVersion \/ signalled)

RequestsOK ==
    /\ req = [r \in Requests |-> req[r]]
    /\ \A r \in Requests : RequestOK(r)
    /\ Pooled

IInv == SchemaOK /\ Migrated /\ RequestsOK

(* At the start nothing is in flight.                                         *)
LEMMA InitIInv == Init => IInv
<1> SUFFICES ASSUME Init PROVE IInv
  OBVIOUS
<1>1. SchemaOK /\ Migrated
  <2>1. [version |-> 0, dirty |-> FALSE] \in [version : 0 .. LastVersion, dirty : BOOLEAN]
    OBVIOUS
  <2> QED
    BY <2>1 DEF Init, SchemaOK, Phases, Migrated
<1>2. req = [r \in Requests |-> req[r]] /\ \A r \in Requests : RequestOK(r)
  BY DEF Init, RequestOK, Active, Settled, Idle
<1>3. Holding = {}
  BY DEF Init, Holding, HoldsConnection, Idle
<1>4. Pooled
  BY <1>3, FS_EmptySet DEF Pooled
<1> QED
  BY <1>1, <1>2, <1>4 DEF IInv, RequestsOK

(* Giving connections back keeps the pool within its size.                    *)
LEMMA FewerConnections ==
    ASSUME Pooled, Holding' \subseteq Holding PROVE Pooled'
<1>1. IsFiniteSet(Holding)
  BY RequestsAssumption, FS_Subset DEF Holding
<1>2. IsFiniteSet(Holding') /\ Cardinality(Holding') <= Cardinality(Holding)
  BY <1>1, FS_Subset
<1>3. Cardinality(Holding) \in Nat /\ Cardinality(Holding') \in Nat
  BY <1>1, <1>2, FS_CardinalityType
<1> QED
  BY <1>2, <1>3 DEF Pooled

(* The process ends or starts anew: nothing is in flight.                     *)
LEMMA SettledOK ==
    ASSUME RequestsOK, req' = [r \in Requests |-> req'[r]],
           \A r \in Requests : req'[r].pc \in Settled
    PROVE  RequestsOK'
<1>1. \A r \in Requests : RequestOK(r)'
  BY DEF RequestOK, Active
<1>2. Holding' = {}
  BY DEF Holding, HoldsConnection, Settled
<1> QED
  BY <1>1, <1>2, FewerConnections DEF RequestsOK

(* The process is gone, and every request with it.                            *)
LEMMA GoneOK == ASSUME RequestsOK, Gone PROVE RequestsOK'
BY SettledOK DEF Gone, Active, Settled

(* A request that moves is looked at alone, unless it takes a connection; the *)
(* commit of one may make rows stale for the others.                          *)
LEMMA MoveOK ==
    ASSUME RequestsOK, NEW p \in Requests,
           req' = [r \in Requests |-> req'[r]],
           \A r \in Requests \ {p} :
               \/ req'[r] = req[r]
               \/ Active(r) /\ \E S : req'[r] = [req[r] EXCEPT !.stale = S],
           RequestOK(p)', HoldsConnection(p)' => HoldsConnection(p)
    PROVE  RequestsOK'
<1>1. ASSUME NEW r \in Requests \ {p}
      PROVE  RequestOK(r)' /\ (HoldsConnection(r)' => HoldsConnection(r))
  <2>1. CASE req'[r] = req[r]
    BY <2>1 DEF RequestsOK, RequestOK, Active, HoldsConnection
  <2>2. ASSUME Active(r), NEW S, req'[r] = [req[r] EXCEPT !.stale = S]
        PROVE  RequestOK(r)' /\ (HoldsConnection(r)' => HoldsConnection(r))
    <3>1. /\ IsRequest(req[r])
          /\ req[r].job \in Jobs[r] /\ req[r].tries \in 1 .. MaxTries
          /\ req[r].held # {} => HoldsConnection(r)
      BY <2>2 DEF RequestsOK, RequestOK
    <3>2. /\ IsRequest(req'[r]) /\ req'[r].job = req[r].job /\ req'[r].tries = req[r].tries
          /\ req'[r].held = req[r].held /\ req'[r].pc = req[r].pc
      BY <2>2, <3>1 DEF IsRequest, RequestFields
    <3> QED
      BY <3>1, <3>2 DEF RequestOK, HoldsConnection
  <2> QED
    BY <2>1, <2>2
<1>2. Holding' \subseteq Holding
  BY <1>1 DEF Holding
<1> QED
  BY <1>1, <1>2, FewerConnections DEF RequestsOK

(* What a request keeps when its transaction ends.                            *)
LEMMA ReleasedFields ==
    ASSUME NEW r \in Requests, IsRequest(req[r]), NEW pc
    PROVE  /\ IsRequest(Released(r, pc))
           /\ Released(r, pc).pc = pc /\ Released(r, pc).held = {}
           /\ Released(r, pc).job = req[r].job /\ Released(r, pc).tries = req[r].tries
BY DEF Released, IsRequest, RequestFields

(* A request that gives up its transaction frees its connection and its locks. *)
LEMMA ReleaseOK ==
    ASSUME RequestsOK, NEW p \in Requests, Active(p), NEW pc \in {"begin", "reply"},
           Becomes(p, Released(p, pc))
    PROVE  RequestsOK'
<1>1. IsRequest(req[p]) /\ req[p].job \in Jobs[p] /\ req[p].tries \in 1 .. MaxTries
  BY DEF RequestsOK, RequestOK
<1>2. /\ req' = [r \in Requests |-> req'[r]] /\ req'[p] = Released(p, pc)
      /\ \A r \in Requests \ {p} : req'[r] = req[r]
  BY DEF Becomes, RequestsOK
<1>3. RequestOK(p)' /\ ~HoldsConnection(p)'
  BY <1>1, <1>2, ReleasedFields DEF RequestOK, HoldsConnection
<1> QED
  BY <1>2, <1>3, MoveOK

-----------------------------------------------------------------------------
(* The steps of main.                                                         *)

(* Migrations bring the schema up before Run; an exit takes every request.    *)
LEMMA MainIInv ==
    ASSUME IInv, Start \/ Signal \/ Kill \/ Main
    PROVE  IInv'
<1>1. SchemaOK /\ Migrated /\ RequestsOK
  BY DEF IInv
<1>2. schema \in [version : 0 .. LastVersion, dirty : BOOLEAN]
  BY <1>1 DEF SchemaOK
<1>3. ASSUME schema.version < LastVersion
      PROVE  [version |-> schema.version + 1, dirty |-> TRUE]
                \in [version : 0 .. LastVersion, dirty : BOOLEAN]
  BY <1>2, <1>3
<1>4. [schema EXCEPT !.dirty = FALSE] \in [version : 0 .. LastVersion, dirty : BOOLEAN]
  BY <1>2
<1>5. schema' \in [version : 0 .. LastVersion, dirty : BOOLEAN]
  BY <1>2, <1>3, <1>4 DEF Start, Signal, Kill, Main, Connect, Migrate, Apply, Serve, Shutdown,
                          CloseRedis, ClosePool, Exit
<1>6. phase' \in Phases /\ signalled' \in BOOLEAN
  BY <1>1 DEF SchemaOK, Phases, Start, Signal, Kill, Main, Connect, Migrate, Apply, Serve, Shutdown,
              CloseRedis, ClosePool, Exit
<1>7. Migrated'
  BY <1>1 DEF Migrated, Start, Signal, Kill, Main, Connect, Migrate, Apply, Serve, Shutdown,
              CloseRedis, ClosePool, Exit
<1>8. RequestsOK'
  <2>1. CASE UNCHANGED req
    BY <1>1, <2>1 DEF RequestsOK, RequestOK, Active, HoldsConnection, Pooled, Holding
  <2>2. CASE Gone
    BY <1>1, <2>2, GoneOK
  <2>3. CASE req' = [r \in Requests |-> Idle]
    BY <1>1, <2>3, SettledOK DEF Idle, Settled
  <2> QED
    BY <2>1, <2>2, <2>3 DEF Start, Signal, Kill, Main, Connect, Migrate, Apply, Serve, Shutdown,
                            CloseRedis, ClosePool, Exit
<1> QED
  BY <1>5, <1>6, <1>7, <1>8 DEF IInv, SchemaOK

-----------------------------------------------------------------------------
(* The steps of a request.                                                    *)

(* A new request holds neither connection nor lock.                           *)
LEMMA AcceptOK == ASSUME RequestsOK, NEW p \in Requests, Accept(p) PROVE RequestsOK'
<1>1. PICK job \in Jobs[p] : Becomes(p, Fresh(job))
  BY DEF Accept
<1>2. /\ req' = [r \in Requests |-> req'[r]] /\ req'[p] = Fresh(job)
      /\ \A r \in Requests \ {p} : req'[r] = req[r]
  BY <1>1 DEF Becomes, RequestsOK
<1>3. /\ IsRequest(Fresh(job)) /\ Fresh(job).pc = "begin" /\ Fresh(job).job = job
      /\ Fresh(job).tries \in 1 .. MaxTries /\ Fresh(job).held = {}
  BY DEF IsRequest, RequestFields, Fresh
<1>4. RequestOK(p)' /\ ~HoldsConnection(p)'
  BY <1>2, <1>3 DEF RequestOK, HoldsConnection
<1> QED
  BY <1>2, <1>4, MoveOK

(* The pool had a connection left.                                            *)
LEMMA BeginOK == ASSUME RequestsOK, NEW p \in Requests, BeginTx(p) PROVE RequestsOK'
<1>1. /\ Active(p) /\ IsRequest(req[p]) /\ req[p].job \in Jobs[p] /\ req[p].tries \in 1 .. MaxTries
      /\ ~HoldsConnection(p)
  BY DEF BeginTx, In, Active, Settled, RequestsOK, RequestOK, HoldsConnection
<1>2. PICK rec : /\ rec = [Released(p, "run") EXCEPT !.left = RowsAt(req[p].job, 1)]
                 /\ Becomes(p, rec)
  BY DEF BeginTx
<1>3. /\ IsRequest(rec) /\ rec.pc = "run" /\ rec.job = req[p].job /\ rec.tries = req[p].tries
      /\ rec.held = {}
  BY <1>1, <1>2, ReleasedFields DEF IsRequest, RequestFields
<1>4. /\ req' = [r \in Requests |-> req'[r]] /\ req'[p] = rec
      /\ \A r \in Requests \ {p} : req'[r] = req[r]
  BY <1>2 DEF Becomes, RequestsOK
<1>5. RequestOK(p)'
  BY <1>1, <1>3, <1>4 DEF RequestOK
<1>6. \A r \in Requests \ {p} : RequestOK(r)'
  BY <1>4 DEF RequestsOK, RequestOK, Active, HoldsConnection
<1>7. Holding' = Holding \cup {p}
  BY <1>3, <1>4 DEF Holding, HoldsConnection
<1>8. Cardinality(Holding) < PoolSize
  BY DEF BeginTx, FreeConnection, Holding
<1>9. IsFiniteSet(Holding) /\ p \notin Holding
  BY <1>1, RequestsAssumption, FS_Subset DEF Holding
<1>10. Cardinality(Holding') = Cardinality(Holding) + 1 /\ Cardinality(Holding) \in Nat
  BY <1>7, <1>9, FS_AddElement, FS_CardinalityType
<1>11. Pooled'
  BY <1>8, <1>10 DEF Pooled
<1> QED
  BY <1>4, <1>5, <1>6, <1>11 DEF RequestsOK

(* Locking a row, waiting for one, and handing over to the mail server.       *)
LEMMA WorkOK ==
    ASSUME RequestsOK, NEW p \in Requests, LockRow(p) \/ Wait(p) \/ Send(p)
    PROVE  RequestsOK'
<1>1. In(p, "run") /\ Active(p) /\ IsRequest(req[p]) /\ RequestOK(p)
  BY DEF LockRow, Wait, Send, Running, Executed, In, Active, Settled, RequestsOK, RequestOK
<1>2. PICK rec : /\ Becomes(p, rec)
                 /\ IsRequest(rec) /\ rec.pc \in {"run", "mail"}
                 /\ rec.job = req[p].job /\ rec.tries = req[p].tries
  <2>1. ASSUME LockRow(p)
        PROVE  \E rec : /\ Becomes(p, rec)
                        /\ IsRequest(rec) /\ rec.pc \in {"run", "mail"}
                        /\ rec.job = req[p].job /\ rec.tries = req[p].tries
    <3>1. PICK held, step, left :
            Becomes(p, [req[p] EXCEPT !.held = held, !.waits = {}, !.step = step, !.left = left])
      BY <2>1 DEF LockRow
    <3>2. PICK rec : rec = [req[p] EXCEPT !.held = held, !.waits = {}, !.step = step, !.left = left]
      OBVIOUS
    <3>3. /\ IsRequest(rec) /\ rec.pc = "run" /\ rec.job = req[p].job /\ rec.tries = req[p].tries
      BY <1>1, <3>2 DEF IsRequest, RequestFields, In
    <3> QED
      BY <3>1, <3>2, <3>3
  <2>2. ASSUME Wait(p)
        PROVE  \E rec : /\ Becomes(p, rec)
                        /\ IsRequest(rec) /\ rec.pc \in {"run", "mail"}
                        /\ rec.job = req[p].job /\ rec.tries = req[p].tries
    <3>1. PICK rec, waits : rec = [req[p] EXCEPT !.waits = waits] /\ Becomes(p, rec)
      BY <2>2 DEF Wait
    <3>2. /\ IsRequest(rec) /\ rec.pc = "run" /\ rec.job = req[p].job /\ rec.tries = req[p].tries
      BY <1>1, <3>1 DEF IsRequest, RequestFields, In
    <3> QED
      BY <3>1, <3>2
  <2>3. ASSUME Send(p)
        PROVE  \E rec : /\ Becomes(p, rec)
                        /\ IsRequest(rec) /\ rec.pc \in {"run", "mail"}
                        /\ rec.job = req[p].job /\ rec.tries = req[p].tries
    <3>1. PICK rec : rec = [req[p] EXCEPT !.pc = "mail"] /\ Becomes(p, rec)
      BY <2>3 DEF Send
    <3>2. /\ IsRequest(rec) /\ rec.pc = "mail" /\ rec.job = req[p].job /\ rec.tries = req[p].tries
      BY <1>1, <3>1 DEF IsRequest, RequestFields
    <3> QED
      BY <3>1, <3>2
  <2> QED
    BY <2>1, <2>2, <2>3
<1>3. /\ req' = [r \in Requests |-> req'[r]] /\ req'[p] = rec
      /\ \A r \in Requests \ {p} : req'[r] = req[r]
  BY <1>2 DEF Becomes, RequestsOK
<1>4. RequestOK(p)' /\ HoldsConnection(p)
  BY <1>1, <1>2, <1>3 DEF RequestOK, HoldsConnection, In, Active
<1> QED
  BY <1>3, <1>4, MoveOK

(* A serialization failure starts over, with one try less.                    *)
LEMMA RetryOK == ASSUME RequestsOK, NEW p \in Requests, Retry(p) PROVE RequestsOK'
<1>1. Active(p) /\ IsRequest(req[p]) /\ req[p].job \in Jobs[p] /\ req[p].tries \in 1 .. MaxTries
  BY DEF Retry, Running, In, Active, Settled, RequestsOK, RequestOK
<1>2. CASE Becomes(p, Released(p, "reply"))
  BY <1>1, <1>2, ReleaseOK
<1>3. CASE req[p].tries < MaxTries /\ Becomes(p, [Released(p, "begin") EXCEPT !.tries = @ + 1])
  <2>1. PICK rec : rec = [Released(p, "begin") EXCEPT !.tries = @ + 1] /\ Becomes(p, rec)
    BY <1>3
  <2>2. /\ IsRequest(rec) /\ rec.pc = "begin" /\ rec.job = req[p].job
        /\ rec.tries = req[p].tries + 1 /\ rec.held = {}
    BY <1>1, <2>1, ReleasedFields DEF IsRequest, RequestFields
  <2>3. /\ req' = [r \in Requests |-> req'[r]] /\ req'[p] = rec
        /\ \A r \in Requests \ {p} : req'[r] = req[r]
    BY <2>1 DEF Becomes, RequestsOK
  <2>4. rec.tries \in 1 .. MaxTries
    BY <1>1, <1>3, <2>2
  <2>5. RequestOK(p)' /\ ~HoldsConnection(p)'
    BY <1>1, <2>2, <2>3, <2>4 DEF RequestOK, HoldsConnection
  <2> QED
    BY <2>3, <2>5, MoveOK
<1> QED
  BY <1>2, <1>3 DEF Retry

(* A commit gives locks and connection back, and others their stale rows.     *)
LEMMA CommitOK ==
    ASSUME RequestsOK, NEW p \in Requests, Active(p), Committed(p)
    PROVE  RequestsOK'
<1>1. IsRequest(req[p]) /\ req[p].job \in Jobs[p] /\ req[p].tries \in 1 .. MaxTries
  BY DEF RequestsOK, RequestOK
<1>2. req' = [r \in Requests |-> req'[r]] /\ req'[p] = Released(p, "reply")
  BY DEF Committed
<1>3. ASSUME NEW r \in Requests \ {p}
      PROVE  \/ req'[r] = req[r]
             \/ Active(r) /\ \E S : req'[r] = [req[r] EXCEPT !.stale = S]
  BY DEF Committed, HasSnapshot, AtFirstStatement, In, Active, Settled
<1>4. RequestOK(p)' /\ ~HoldsConnection(p)'
  BY <1>1, <1>2, ReleasedFields DEF RequestOK, HoldsConnection
<1> QED
  BY <1>2, <1>3, <1>4, MoveOK

(* An answered request is done with the database.                             *)
LEMMA SettleOK ==
    ASSUME RequestsOK, NEW p \in Requests, NEW pc \in Settled, Becomes(p, [pc |-> pc])
    PROVE  RequestsOK'
<1>1. /\ req' = [r \in Requests |-> req'[r]] /\ req'[p] = [pc |-> pc]
      /\ \A r \in Requests \ {p} : req'[r] = req[r]
  BY DEF Becomes, RequestsOK
<1>2. RequestOK(p)' /\ ~HoldsConnection(p)'
  BY <1>1 DEF RequestOK, HoldsConnection, Active, Settled
<1> QED
  BY <1>1, <1>2, MoveOK

(* Every step of a request keeps the invariant.                               *)
LEMMA RequestIInv ==
    ASSUME IInv, NEW p \in Requests, Accept(p) \/ Step(p) \/ MailAnswered(p)
    PROVE  IInv'
<1>1. RequestsOK /\ UNCHANGED process
  BY DEF IInv, Accept, Step, MailAnswered, Database, BeginTx, LockRow, Wait, Retry, Refuse, Victim,
         Send, Commit, TimeOut, PoolClosed, Reply
<1>2. SchemaOK' /\ Migrated'
  BY <1>1 DEF IInv, SchemaOK, Migrated, process
<1>3. CASE Refuse(p) \/ Victim(p) \/ TimeOut(p) \/ PoolClosed(p)
  <2>1. Active(p) /\ Becomes(p, Released(p, "reply"))
    BY <1>3 DEF Refuse, Victim, TimeOut, PoolClosed, Running, In, Active, Settled
  <2> QED
    BY <1>1, <1>2, <2>1, ReleaseOK DEF IInv
<1>4. CASE Commit(p)
  <2>1. Active(p) /\ Committed(p)
    BY <1>4 DEF Commit, Executed, In, Active, Settled
  <2> QED
    BY <1>1, <1>2, <2>1, CommitOK DEF IInv
<1>5. CASE MailAnswered(p)
  <2>1. Active(p)
    BY <1>5 DEF MailAnswered, In, Active, Settled
  <2>2. "lost" \in Settled
    BY DEF Settled
  <2> QED
    BY <1>1, <1>2, <1>5, <2>1, <2>2, CommitOK, ReleaseOK, SettleOK DEF IInv, MailAnswered
<1>6. CASE Reply(p)
  BY <1>1, <1>2, <1>6, SettleOK DEF IInv, Reply, Settled
<1> QED
  BY <1>1, <1>2, <1>3, <1>4, <1>5, <1>6, AcceptOK, BeginOK, WorkOK, RetryOK DEF IInv, Step, Database

(* The inductive invariant holds in every reachable state.                    *)
LEMMA Invariant == Spec => []IInv
<1>1. IInv /\ UNCHANGED vars => IInv'
  BY DEF vars, IInv, SchemaOK, Migrated, RequestsOK, RequestOK, Active, HoldsConnection, Pooled,
         Holding
<1>2. IInv /\ [Next]_vars => IInv'
  BY <1>1, MainIInv, RequestIInv DEF Next
<1> QED
  BY <1>2, InitIInv, PTL DEF Spec

-----------------------------------------------------------------------------
(* The pool of pgxpool is never overdrawn and locks are held on a connection  *)
(* only, for any number of requests and any size of the pool.                 *)
THEOREM TypeCorrect == Spec => []TypeOK
<1>1. IInv => TypeOK
  BY DEF IInv, SchemaOK, RequestsOK, RequestOK, Pooled, Holding, TypeOK
<1> QED
  BY <1>1, Invariant, PTL

(* MigrateDatabaseUp and Run: whatever crashes and signals came before, a     *)
(* process that serves has a whole schema, or was told to stop.               *)
THEOREM ServesOnlyWholeSchema == Spec => []ServesWholeSchema
<1>1. IInv => ServesWholeSchema
  BY DEF IInv, Migrated, ServesWholeSchema
<1> QED
  BY <1>1, Invariant, PTL

(* pool.Close among main's deferred calls: an exit cuts no transaction off.   *)
THEOREM ExitNeverCuts == Spec => ExitCutsNoTransaction
<1> DEFINE Cuts == phase' = "exited" /\ phase # "exited" =>
                     \A r \in Requests : Active(r) => req[r].held = {}
<1>1. Next /\ phase' = "exited" /\ phase # "exited" => Exit
  BY DEF Next, Start, Signal, Kill, Main, Connect, Migrate, Apply, Serve, Shutdown, CloseRedis,
         ClosePool, Accept, Step, MailAnswered, Database, BeginTx, LockRow, Wait, Retry, Refuse,
         Victim, Send, Commit, TimeOut, PoolClosed, Reply, process
<1>2. IInv /\ [Next]_vars => [Cuts]_vars
  BY <1>1 DEF IInv, RequestsOK, RequestOK, Exit
<1> QED
  BY <1>2, Invariant, PTL DEF Spec, ExitCutsNoTransaction

-----------------------------------------------------------------------------
(* Locks: which a request holds, and the order in which account changes take  *)
(* them.                                                                      *)

AccountChanges == Commands \ {"rotate", "revoke_family"}

(* lock was taken by a statement of q's command that is done with its row.    *)
Locked(q, lock) ==
    \E i \in 1 .. Len(Program(q.job)) :
        /\ i <= q.step /\ lock = <<lock[1], Program(q.job)[i].mode>>
        /\ lock[1] \in Program(q.job)[i].rows
        /\ i = q.step => lock[1] \notin q.left

(* Where q stands in its command, and whether it waits there.                 *)
PositionOK(q) ==
    /\ q.step \in 1 .. Len(Program(q.job)) + 1
    /\ q.left \subseteq RowsAt(q.job, q.step)
    /\ q.waits = {} \/ \E row \in q.left : q.waits = {row}

(* The rows done are those locked.                                            *)
HeldOK(q) ==
    /\ \A lock \in q.held : Locked(q, lock)
    /\ \A i \in 1 .. Len(Program(q.job)) : \A row \in Program(q.job)[i].rows :
          i < q.step \/ (i = q.step /\ row \notin q.left) =>
              <<row, Program(q.job)[i].mode>> \in q.held

(* ORDER BY user_uuid: what is left of the super_admins are the last ones,    *)
(* and q waits for the first of these.                                        *)
SortedOK(q) ==
    q.step <= Len(Program(q.job)) /\ Program(q.job)[q.step].ordered =>
        \A i, j \in DOMAIN Admins : i < j =>
            /\ Admins[i] \in q.left => Admins[j] \in q.left
            /\ Admins[j] \in q.waits => Admins[i] \notin q.left

(* Nobody waits for a row it has locked FOR UPDATE.                           *)
WaitsOK(q) == \A lock \in q.held : lock[1] \in q.waits => lock[2] # "for_update"

LocksOK(q) == PositionOK(q) /\ HeldOK(q) /\ SortedOK(q) /\ WaitsOK(q)

(* No two transactions hold conflicting locks of one row.                     *)
Exclusive ==
    \A r, s \in Requests : r # s /\ Active(r) /\ Active(s) =>
        \A a \in req[r].held, b \in req[s].held : a[1] = b[1] => ~Conflict(a[2], b[2])

LocksInv == Exclusive /\ \A r \in Requests : HoldsConnection(r) => LocksOK(req[r])

(* A request is of one of the commands, of one of the users.                  *)
LEMMA JobTyped ==
    ASSUME NEW r \in Requests, NEW job \in Jobs[r]
    PROVE  job \in [op : Commands, user : Users]
<1>1. PICK T : T = [op : Commands, user : Users]
  OBVIOUS
<1>2. Jobs \in [Requests -> SUBSET T]
  BY <1>1, CommandsAssumption
<1> QED
  BY <1>1, <1>2

(* What \o makes of a statement and those that follow it.                     *)
LEMMA PairJoined == ASSUME NEW a, NEW b PROVE <<a>> \o <<b>> = <<a, b>>
<1> DEFINE S == {a, b}
<1>1. <<a>> \in Seq(S) /\ <<b>> \in Seq(S) /\ <<a, b>> \in Seq(S)
  OBVIOUS
<1>2. PICK s : s = <<a>> \o <<b>>
  OBVIOUS
<1>3. s \in Seq(S) /\ Len(s) = 2 /\ s[1] = a /\ s[2] = b
  BY <1>1, <1>2, ConcatProperties
<1>4. PICK t : t = <<a, b>>
  OBVIOUS
<1>5. t \in Seq(S) /\ Len(t) = 2 /\ \A i \in 1 .. Len(s) : s[i] = t[i]
  BY <1>1, <1>3, <1>4
<1>6. s = t
  <2> HIDE DEF S
  <2> QED
    BY <1>3, <1>5, SeqEqual
<1> QED
  BY <1>2, <1>4, <1>6

(* The same for two that follow.                                              *)
LEMMA TripleJoined == ASSUME NEW a, NEW b, NEW c PROVE <<a>> \o <<b, c>> = <<a, b, c>>
<1> DEFINE S == {a, b, c}
<1>1. <<a>> \in Seq(S) /\ <<b, c>> \in Seq(S) /\ <<a, b, c>> \in Seq(S)
  OBVIOUS
<1>2. PICK s : s = <<a>> \o <<b, c>>
  OBVIOUS
<1>3. s \in Seq(S) /\ Len(s) = 3 /\ s[1] = a /\ s[2] = b /\ s[3] = c
  BY <1>1, <1>2, ConcatProperties
<1>4. PICK t : t = <<a, b, c>>
  OBVIOUS
<1>5. t \in Seq(S) /\ Len(t) = 3 /\ \A i \in 1 .. Len(s) : s[i] = t[i]
  BY <1>1, <1>3, <1>4
<1>6. s = t
  <2> HIDE DEF S
  <2> QED
    BY <1>3, <1>5, SeqEqual
<1> QED
  BY <1>2, <1>4, <1>6

(* The second half of an account change.                                      *)
LEMMA RevokingShape ==
    ASSUME NEW u, NEW P, P = <<UpdateUser(u)>> \o Locking(RevokeByUser(u))
    PROVE  P = <<UpdateUser(u)>> \/ P = <<UpdateUser(u), RevokeByUser(u)>>
<1>1. CASE RevokeByUser(u).rows = {}
  BY <1>1 DEF Locking
<1>2. CASE RevokeByUser(u).rows # {}
  BY <1>2, PairJoined DEF Locking
<1> QED
  BY <1>1, <1>2

(* The statements that may come before the user's own row.                    *)
First(u) == {Statement({OneTime(u)}, "update"), LockActiveSuperAdmins}

(* What an account change may consist of.                                     *)
LEMMA ProgramShape ==
    ASSUME NEW job, job.op \in AccountChanges, NEW u, u = job.user
    PROVE  \/ \E st \in {Referring(u), UpdateUser(u)} : Program(job) = <<st>>
           \/ Program(job) = <<UpdateUser(u), RevokeByUser(u)>>
           \/ \E st \in First(u) : Program(job) = <<st, UpdateUser(u)>>
           \/ Program(job) = <<Statement({OneTime(u)}, "update"), Referring(u)>>
           \/ \E st \in First(u) : Program(job) = <<st, UpdateUser(u), RevokeByUser(u)>>
<1> DEFINE Revoking == <<UpdateUser(u)>> \o Locking(RevokeByUser(u))
<1>1. Revoking = <<UpdateUser(u)>> \/ Revoking = <<UpdateUser(u), RevokeByUser(u)>>
  BY RevokingShape
<1>2. ASSUME NEW st
      PROVE \/ <<st>> \o Revoking = <<st, UpdateUser(u)>>
            \/ <<st>> \o Revoking = <<st, UpdateUser(u), RevokeByUser(u)>>
  <2> HIDE DEF Revoking
  <2> QED BY <1>1, PairJoined, TripleJoined
<1>3. << >> \o Revoking = Revoking
  <2> HIDE DEF Revoking
  <2> QED BY <1>1
<1>4. CASE job.op = "disable_super"
  <2>1. Program(job) = Locking(LockActiveSuperAdmins) \o Revoking
    BY <1>4 DEF Program
  <2> HIDE DEF Revoking
  <2> QED
    BY <2>1, <1>1, <1>2, <1>3 DEF Locking, First
<1>5. CASE job.op \in {"disable", "change"}
  <2>1. Program(job) = Revoking
    BY <1>5 DEF Program
  <2> HIDE DEF Revoking
  <2> QED
    BY <2>1, <1>1
<1>6. CASE job.op = "confirm"
  <2>1. Program(job) = <<Statement({OneTime(u)}, "update")>> \o Revoking
    BY <1>6 DEF Program
  <2> HIDE DEF Revoking
  <2> QED
    BY <2>1, <1>2 DEF First
<1>7. CASE job.op \in {"reactivate", "login", "issue"}
  BY <1>7 DEF Program
<1> QED
  BY <1>4, <1>5, <1>6, <1>7 DEF AccountChanges, Commands

(* Tokens are revoked by a statement of its own.                              *)
LEMMA RevokingDiffers ==
    ASSUME NEW u \in Users
    PROVE  RevokeByUser(u) \notin First(u) \cup {UpdateUser(u), Referring(u)}
<1>1. OneTime(u) \notin TokensOf[u] /\ u \notin TokensOf[u]
  BY RowsAssumption
<1>2. RevokeByUser(u).rows = TokensOf[u] /\ RevokeByUser(u).ordered = FALSE
  BY DEF RevokeByUser, Statement
<1>3. /\ UpdateUser(u).rows = {u} /\ Referring(u).rows = {u}
      /\ Statement({OneTime(u)}, "update").rows = {OneTime(u)}
      /\ LockActiveSuperAdmins.ordered = TRUE
  BY DEF UpdateUser, Referring, Statement, LockActiveSuperAdmins
<1> QED
  BY <1>1, <1>2, <1>3 DEF First

(* In which order the statements of an account change come.                   *)
LEMMA StatementOrder ==
    ASSUME NEW job, job.op \in AccountChanges, NEW u \in Users, u = job.user,
           NEW P, P = Program(job)
    PROVE  /\ Len(P) \in Nat
           /\ \A i \in 1 .. Len(P) :
                 P[i] \in First(u) \cup {UpdateUser(u), Referring(u), RevokeByUser(u)}
           /\ \A i, k \in 1 .. Len(P) : i < k =>
                 \/ P[i] \in First(u) /\ P[k] \in {UpdateUser(u), Referring(u), RevokeByUser(u)}
                 \/ P[i] = UpdateUser(u) /\ P[k] = RevokeByUser(u)
           /\ \A k \in 1 .. Len(P) : P[k] = RevokeByUser(u) =>
                 \E i \in 1 .. Len(P) : i < k /\ P[i] = UpdateUser(u)
<1>1. RevokeByUser(u) \notin First(u) \cup {UpdateUser(u), Referring(u)}
  BY RevokingDiffers
<1>2. CASE \E st \in {Referring(u), UpdateUser(u)} : P = <<st>>
  <2>1. Len(P) = 1 /\ P[1] \in {Referring(u), UpdateUser(u)}
    BY <1>2
  <2> HIDE DEF First
  <2> QED
    BY <1>1, <2>1
<1>3. CASE P = <<UpdateUser(u), RevokeByUser(u)>>
  <2>1. Len(P) = 2 /\ P[1] = UpdateUser(u) /\ P[2] = RevokeByUser(u)
    BY <1>3
  <2> HIDE DEF First
  <2> QED
    BY <1>1, <2>1
<1>4. CASE \E st \in First(u), su \in {UpdateUser(u), Referring(u)} : P = <<st, su>>
  <2>1. Len(P) = 2 /\ P[1] \in First(u) /\ P[2] \in {UpdateUser(u), Referring(u)}
    BY <1>4
  <2> HIDE DEF First
  <2> QED
    BY <1>1, <2>1
<1>5. CASE \E st \in First(u) : P = <<st, UpdateUser(u), RevokeByUser(u)>>
  <2>1. Len(P) = 3 /\ P[1] \in First(u) /\ P[2] = UpdateUser(u) /\ P[3] = RevokeByUser(u)
    BY <1>5
  <2> HIDE DEF First
  <2> QED
    BY <1>1, <2>1
<1>6. Statement({OneTime(u)}, "update") \in First(u)
  BY DEF First
<1> HIDE DEF First
<1> QED
  BY <1>2, <1>3, <1>4, <1>5, <1>6, ProgramShape

(* What holds of the statements of every command.                             *)
LEMMA StatementsOK ==
    ASSUME NEW job \in [op : Commands, user : Users], NEW P, P = Program(job)
    PROVE  /\ Len(P) \in Nat
           /\ \A i \in 1 .. Len(P) :
                 P[i].mode \in Modes /\ (P[i].ordered => P[i].rows = AdminRows)
<1>1. PICK u \in Users : u = job.user
  OBVIOUS
<1>2. \A rows : \A mode \in {"update", "key_share"} :
        Statement(rows, mode).mode \in Modes /\ ~Statement(rows, mode).ordered
  BY DEF Statement, Modes
<1>3. LockActiveSuperAdmins.mode \in Modes /\ LockActiveSuperAdmins.rows = AdminRows
  BY DEF LockActiveSuperAdmins, Modes
<1>4. CASE job.op \in AccountChanges
  <2>1. \A st \in First(u) \cup {UpdateUser(u), Referring(u), RevokeByUser(u)} :
          st.mode \in Modes /\ (st.ordered => st.rows = AdminRows)
    BY <1>2, <1>3 DEF First, UpdateUser, Referring, RevokeByUser
  <2> QED
    BY <1>1, <1>4, <2>1, StatementOrder
<1>5. CASE job.op = "rotate"
  <2>1. PICK t : P = <<Statement({t}, "update"), Referring(u)>>
    BY <1>1, <1>5 DEF Program
  <2>2. Len(P) = 2 /\ P[1] = Statement({t}, "update") /\ P[2] = Referring(u)
    BY <2>1
  <2> QED
    BY <2>2, <1>2 DEF Referring
<1>6. CASE job.op = "revoke_family"
  <2>1. P = << >> \/ P = <<RevokeByUser(u)>>
    BY <1>1, <1>6 DEF Program, Locking
  <2> QED
    BY <2>1, <1>2 DEF RevokeByUser
<1> QED
  BY <1>4, <1>5, <1>6 DEF AccountChanges

-----------------------------------------------------------------------------
(* One-time rows come first, then the super_admins as they are sorted, then   *)
(* the other users, then tokens.                                              *)
RankOf(row) ==
    IF row \in AdminRows THEN CHOOSE i \in DOMAIN Admins : Admins[i] = row
    ELSE IF row \in Users THEN Len(Admins) + 1
    ELSE IF \E u \in Users : row = OneTime(u) THEN 0
    ELSE Len(Admins) + 2

(* The ranks of the rows of each table.                                       *)
LEMMA Ranks ==
    /\ Len(Admins) \in Nat /\ DOMAIN Admins = 1 .. Len(Admins)
    /\ \A i \in DOMAIN Admins : RankOf(Admins[i]) = i
    /\ \A u \in Users : RankOf(u) \in 1 .. Len(Admins) + 1
    /\ \A u \in Users : u \notin AdminRows => RankOf(u) = Len(Admins) + 1
    /\ \A u \in Users : RankOf(OneTime(u)) = 0
    /\ \A u \in Users : \A t \in TokensOf[u] : RankOf(t) = Len(Admins) + 2
    /\ \A row : RankOf(row) \in Nat
<1>1. Len(Admins) \in Nat /\ DOMAIN Admins = 1 .. Len(Admins) /\ AdminRows \subseteq Users
  BY AdminsAssumption DEF AdminRows
<1>2. ASSUME NEW i \in DOMAIN Admins PROVE RankOf(Admins[i]) = i
  BY AdminsAssumption DEF RankOf, AdminRows
<1>3. ASSUME NEW u \in Users
      PROVE  /\ RankOf(u) \in 1 .. Len(Admins) + 1
             /\ u \notin AdminRows => RankOf(u) = Len(Admins) + 1
  <2>1. CASE u \in AdminRows
    BY <1>1, <1>2, <2>1 DEF AdminRows
  <2>2. CASE u \notin AdminRows
    BY <1>1, <2>2 DEF RankOf
  <2> QED
    BY <2>1, <2>2
<1>4. ASSUME NEW u \in Users PROVE RankOf(OneTime(u)) = 0
  BY <1>1, RowsAssumption DEF RankOf
<1>5. ASSUME NEW u \in Users, NEW t \in TokensOf[u] PROVE RankOf(t) = Len(Admins) + 2
  <2>1. t \notin Users /\ \A v \in Users : t # OneTime(v)
    BY RowsAssumption
  <2> QED
    BY <1>1, <2>1 DEF RankOf
<1>6. ASSUME NEW row PROVE RankOf(row) \in Nat
  <2>1. CASE row \in AdminRows
    BY <1>1, <1>2, <2>1 DEF AdminRows
  <2>2. CASE row \notin AdminRows
    BY <1>1, <2>2 DEF RankOf
  <2> QED
    BY <2>1, <2>2
<1> QED
  BY <1>1, <1>2, <1>3, <1>4, <1>5, <1>6

(* The rows of each kind of statement.                                        *)
LEMMA StatementRows ==
    ASSUME NEW u
    PROVE  /\ UpdateUser(u).rows = {u} /\ Referring(u).rows = {u}
           /\ RevokeByUser(u).rows = TokensOf[u]
           /\ UpdateUser(u).mode = "update" /\ RevokeByUser(u).mode = "update"
           /\ LockActiveSuperAdmins.rows = AdminRows /\ LockActiveSuperAdmins.ordered = TRUE
           /\ LockActiveSuperAdmins.mode = "for_update"
           /\ \A st \in First(u) : st.rows = {OneTime(u)} \/ st = LockActiveSuperAdmins
BY DEF UpdateUser, Referring, RevokeByUser, Statement, LockActiveSuperAdmins, First

(* An account change that is at a token has the row of its user.              *)
LEMMA TokenAfterUser ==
    ASSUME NEW q, LocksOK(q), q.job.op \in AccountChanges, NEW u \in Users, u = q.job.user,
           NEW i \in 1 .. Len(Program(q.job)), i <= q.step,
           NEW v \in Users, NEW t \in TokensOf[v], t \in Program(q.job)[i].rows
    PROVE  v = u /\ <<u, "update">> \in q.held
<1>1. PICK P : P = Program(q.job)
  OBVIOUS
<1>rows. /\ UpdateUser(u).rows = {u} /\ Referring(u).rows = {u}
       /\ RevokeByUser(u).rows = TokensOf[u]
       /\ UpdateUser(u).mode = "update"
       /\ LockActiveSuperAdmins.rows = AdminRows /\ LockActiveSuperAdmins.ordered = TRUE
       /\ LockActiveSuperAdmins.mode = "for_update"
       /\ \A st \in First(u) : st.rows = {OneTime(u)} \/ st = LockActiveSuperAdmins
  BY StatementRows
<1>2. /\ P[i] \in First(u) \cup {UpdateUser(u), Referring(u), RevokeByUser(u)}
      /\ P[i] = RevokeByUser(u) => \E k \in 1 .. Len(P) : k < i /\ P[k] = UpdateUser(u)
      /\ Len(P) \in Nat
  BY <1>1, StatementOrder
<1>3. t \notin Users /\ t # OneTime(u)
  BY RowsAssumption
<1>4. AdminRows \subseteq Users
  BY AdminsAssumption DEF AdminRows
<1>5. P[i] = RevokeByUser(u) /\ t \in TokensOf[u]
  <2>1. t \in P[i].rows
    BY <1>1
  <2>2. P[i] \notin First(u)
    BY <2>1, <1>3, <1>4, <1>rows
  <2>3. P[i] # UpdateUser(u) /\ P[i] # Referring(u)
    BY <2>1, <1>3, <1>rows
  <2>4. P[i] = RevokeByUser(u)
    BY <1>2, <2>2, <2>3
  <2> QED
    BY <2>1, <2>4, <1>rows
<1>6. v = u
  BY <1>5, RowsAssumption
<1>7. PICK k \in 1 .. Len(P) : k < i /\ P[k] = UpdateUser(u)
  BY <1>2, <1>5
<1>8. k < q.step
  BY <1>1, <1>2, <1>7 DEF LocksOK, PositionOK
<1>9. <<u, P[k].mode>> \in q.held
  <2>1. u \in P[k].rows
    BY <1>7, <1>rows
  <2> QED
    BY <1>1, <1>7, <1>8, <2>1 DEF LocksOK, HeldOK
<1> QED
  BY <1>6, <1>7, <1>9, <1>rows

(* An account change never waits for a lower row than one it keeps from       *)
(* another account change.                                                    *)
LEMMA RankRises ==
    ASSUME NEW a, LocksOK(a), a.job.op \in AccountChanges, a.job.user \in Users,
           NEW b, LocksOK(b), b.job.op \in AccountChanges, b.job.user \in Users,
           \A x \in a.held, y \in b.held : x[1] = y[1] => ~Conflict(x[2], y[2]),
           NEW row \in a.waits, NEW m, <<row, m>> \in b.held, NEW next \in b.waits
    PROVE  RankOf(row) < RankOf(next)
<1>1. PICK u \in Users : u = b.job.user
  OBVIOUS
<1>rows. /\ UpdateUser(u).rows = {u} /\ Referring(u).rows = {u}
       /\ RevokeByUser(u).rows = TokensOf[u]
       /\ UpdateUser(u).mode = "update"
       /\ LockActiveSuperAdmins.rows = AdminRows /\ LockActiveSuperAdmins.ordered = TRUE
       /\ LockActiveSuperAdmins.mode = "for_update"
       /\ \A st \in First(u) : st.rows = {OneTime(u)} \/ st = LockActiveSuperAdmins
  BY StatementRows
<1>2. PICK P, k : P = Program(b.job) /\ k = b.step
  OBVIOUS
<1>3. PICK i \in 1 .. Len(P) : /\ i <= k /\ m = P[i].mode /\ row \in P[i].rows
                               /\ i = k => row \notin b.left
  BY <1>2 DEF LocksOK, HeldOK, Locked
<1>4. Len(P) \in Nat /\ Len(Program(a.job)) \in Nat
  BY <1>2, StatementOrder
<1>5. k \in 1 .. Len(P) /\ next \in b.left /\ next \in P[k].rows
  BY <1>2, <1>4 DEF LocksOK, PositionOK, RowsAt
<1>6. a.step \in 1 .. Len(Program(a.job)) /\ row \in Program(a.job)[a.step].rows
  BY <1>4 DEF LocksOK, PositionOK, RowsAt
<1>7. ASSUME NEW v \in Users PROVE row \notin TokensOf[v]
  <2> SUFFICES ASSUME row \in TokensOf[v] PROVE FALSE
    OBVIOUS
  <2>1. v = u /\ <<u, "update">> \in b.held
    BY <1>1, <1>2, <1>3, TokenAfterUser
  <2>2. PICK w \in Users : w = a.job.user
    OBVIOUS
  <2>3. v = w /\ <<w, "update">> \in a.held
    BY <1>4, <1>6, <2>2, TokenAfterUser
  <2> QED
    BY <2>1, <2>3 DEF Conflict
<1>8. P[i] # RevokeByUser(u)
  BY <1>1, <1>3, <1>7, <1>rows
<1>9. AdminRows \subseteq Users
  BY AdminsAssumption DEF AdminRows
<1>10. CASE i = k
  <2>1. row # next
    BY <1>3, <1>5, <1>10
  <2>2. P[i] = LockActiveSuperAdmins
    BY <1>1, <1>2, <1>3, <1>5, <1>8, <1>10, <2>1, StatementOrder, <1>rows
  <2>3. PICK x \in DOMAIN Admins, y \in DOMAIN Admins : row = Admins[x] /\ next = Admins[y]
    BY <1>3, <1>5, <1>10, <2>2, <1>rows DEF AdminRows
  <2>4. ~(y < x)
    BY <1>2, <1>3, <1>4, <1>5, <1>10, <2>2, <2>3, <1>rows DEF LocksOK, SortedOK
  <2> QED
    BY <2>1, <2>3, <2>4, Ranks
<1>11. CASE i < k
  <2>1. CASE P[i] = UpdateUser(u) /\ P[k] = RevokeByUser(u)
    <3>1. row = u /\ next \in TokensOf[u]
      BY <1>3, <1>5, <2>1, <1>rows
    <3> QED
      BY <3>1, Ranks
  <2>2. CASE P[i] \in First(u) /\ P[k] = RevokeByUser(u)
    <3>1. next \in TokensOf[u] /\ (row = OneTime(u) \/ row \in Users)
      BY <1>3, <1>5, <1>9, <2>2, <1>rows
    <3> QED
      BY <3>1, Ranks
  <2>3. CASE P[i] \in First(u) /\ P[k] \in {UpdateUser(u), Referring(u)}
    <3>1. next = u
      BY <1>5, <2>3, <1>rows
    <3>2. CASE row = OneTime(u)
      BY <3>1, <3>2, Ranks
    <3>3. CASE P[i] = LockActiveSuperAdmins
      <4>1. row \in AdminRows
        BY <1>3, <3>3, <1>rows
      <4>2. u \notin AdminRows
        <5> SUFFICES ASSUME u \in AdminRows PROVE FALSE
          OBVIOUS
        <5>1. <<u, "for_update">> \in b.held
          BY <1>2, <1>11, <3>3, <1>rows DEF LocksOK, HeldOK
        <5> QED
          BY <3>1, <5>1 DEF LocksOK, WaitsOK
      <4>3. PICK x \in DOMAIN Admins : row = Admins[x]
        BY <4>1 DEF AdminRows
      <4> QED
        BY <3>1, <4>2, <4>3, Ranks
    <3> QED
      BY <1>3, <2>3, <3>2, <3>3, <1>rows
  <2> QED
    BY <1>1, <1>2, <1>5, <1>11, <2>1, <2>2, <2>3, StatementOrder
<1> QED
  BY <1>3, <1>4, <1>5, <1>10, <1>11

-----------------------------------------------------------------------------
(* Deadlocks.                                                                 *)

(* To wait for a request is to reach it, and whoever it reaches.              *)
LEMMA ReachesStep ==
    ASSUME NEW r, NEW s \in Waiting, WaitsFor(r, s)
    PROVE  Reaches(r, s)
BY DEF Reaches, Awaited

(* The same for more than one step.                                           *)
LEMMA ReachesTransitive ==
    ASSUME NEW r, NEW s, NEW q, Reaches(r, s), Reaches(s, q)
    PROVE  Reaches(r, q)
<1> SUFFICES ASSUME NEW S \in SUBSET Waiting, Awaited({r} \cup S) \subseteq S PROVE q \in S
  BY DEF Reaches
<1>1. s \in S
  BY DEF Reaches
<1>2. Awaited({s} \cup S) \subseteq S
  BY <1>1 DEF Awaited
<1> QED
  BY <1>2 DEF Reaches

(* What r waits for comes before what the account change it waits for does.   *)
LEMMA WaitsRise ==
    ASSUME LocksInv, RequestsOK, NEW r \in Requests, NEW s \in Requests, WaitsFor(r, s),
           req[r].job.op \notin {"rotate", "revoke_family"},
           req[s].job.op \notin {"rotate", "revoke_family"},
           NEW row \in req[r].waits, NEW next \in req[s].waits
    PROVE  RankOf(row) < RankOf(next)
<1>1. In(r, "run") /\ Active(r) /\ HoldsConnection(r)
  BY DEF WaitsFor, Running, In, Active, Settled, HoldsConnection
<1>2. PICK x \in req[r].waits : s \in Blockers(r, x)
  BY DEF WaitsFor
<1>3. PICK m : s # r /\ Active(s) /\ <<x, m>> \in req[s].held
  BY <1>2 DEF Blockers
<1>4. /\ RequestOK(r) /\ req[r].job \in Jobs[r] /\ RequestOK(s) /\ req[s].job \in Jobs[s]
      /\ HoldsConnection(s)
  BY <1>1, <1>3 DEF RequestsOK, RequestOK
<1>5. /\ req[r].job.op \in AccountChanges /\ req[r].job.user \in Users
      /\ req[s].job.op \in AccountChanges /\ req[s].job.user \in Users
  <2>1. req[r].job \in [op : Commands, user : Users] /\ req[s].job \in [op : Commands, user : Users]
    BY ONLY <1>4, JobTyped, r \in Requests, s \in Requests
  <2> QED
    BY <2>1 DEF AccountChanges
<1>6. LocksOK(req[r]) /\ LocksOK(req[s])
  BY <1>1, <1>4 DEF LocksInv
<1>7. x = row
  BY <1>6 DEF LocksOK, PositionOK
<1>8. \A a \in req[r].held, b \in req[s].held : a[1] = b[1] => ~Conflict(a[2], b[2])
  BY <1>1, <1>3 DEF LocksInv, Exclusive
<1> QED
  BY <1>3, <1>5, <1>6, <1>7, <1>8, RankRises

(* A cycle would have to rise for ever.                                       *)
LEMMA LocksKeepOrder == ASSUME LocksInv, RequestsOK PROVE AccountChangesNeverDeadlock
<1> SUFFICES ASSUME NEW r \in Deadlocked,
                    \A s \in Deadlocked : Reaches(r, s) /\ Reaches(s, r) =>
                        req[s].job.op \notin {"rotate", "revoke_family"}
             PROVE  FALSE
  BY DEF AccountChangesNeverDeadlock
<1>1. PICK rank : rank = [s \in Waiting |-> RankOf(CHOOSE row \in req[s].waits : TRUE)]
  OBVIOUS
<1>2. ASSUME NEW s \in Waiting
      PROVE  rank[s] \in Nat /\ \E row \in req[s].waits : rank[s] = RankOf(row)
  <2>1. PICK row \in req[s].waits : row = CHOOSE w \in req[s].waits : TRUE
    BY DEF Waiting
  <2> QED
    BY <1>1, <2>1, Ranks
<1>3. ASSUME NEW p \in Deadlocked, NEW q \in Deadlocked, WaitsFor(p, q),
             Reaches(r, p), Reaches(p, r), Reaches(r, q), Reaches(q, r)
      PROVE  rank[p] < rank[q]
  <2>1. p \in Waiting /\ q \in Waiting /\ p \in Requests /\ q \in Requests
    BY DEF Deadlocked, Waiting
  <2>2. PICK row \in req[p].waits : rank[p] = RankOf(row)
    BY <1>2, <2>1
  <2>3. PICK next \in req[q].waits : rank[q] = RankOf(next)
    BY <1>2, <2>1
  <2> QED
    BY <1>3, <2>1, <2>2, <2>3, WaitsRise
<1> DEFINE S == {s \in Waiting : Reaches(r, s) /\ (Reaches(s, r) => rank[r] < rank[s])}
<1>4. r \in Waiting /\ Reaches(r, r)
  BY DEF Deadlocked
<1>5. Awaited({r} \cup S) \subseteq S
  <2> SUFFICES ASSUME NEW q \in Waiting, NEW p \in {r} \cup S, WaitsFor(p, q) PROVE q \in S
    BY DEF Awaited
  <2>1. p \in Waiting /\ Reaches(r, p) /\ Reaches(p, q)
    BY <1>4, ReachesStep
  <2>2. Reaches(r, q)
    BY <2>1, ReachesTransitive
  <2>3. ASSUME Reaches(q, r) PROVE rank[r] < rank[q]
    <3>1. Reaches(p, r) /\ Reaches(p, p) /\ Reaches(q, q)
      BY <2>1, <2>2, <2>3, ReachesTransitive
    <3>2. p \in Deadlocked /\ q \in Deadlocked
      BY <2>1, <3>1 DEF Deadlocked
    <3>3. rank[p] < rank[q]
      BY <1>3, <2>1, <2>2, <2>3, <3>1, <3>2
    <3>4. p = r \/ rank[r] < rank[p]
      BY <3>1
    <3> QED
      BY <1>2, <1>4, <2>1, <3>3, <3>4
  <2> QED
    BY <2>2, <2>3
<1>6. r \in S
  <2>1. S \in SUBSET Waiting
    OBVIOUS
  <2> HIDE DEF S
  <2> QED
    BY <1>4, <1>5, <2>1 DEF Reaches
<1> QED
  BY <1>2, <1>4, <1>6

-----------------------------------------------------------------------------
(* Steps keep the locks in order.                                             *)

(* Locks do not depend on which rows became stale.                            *)
LEMMA StaleApart ==
    ASSUME NEW q, IsRequest(q), NEW S, NEW n, n = [q EXCEPT !.stale = S]
    PROVE  /\ n.pc = q.pc /\ n.held = q.held
           /\ LocksOK(q) => LocksOK(n)
<1>1. /\ n.pc = q.pc /\ n.job = q.job /\ n.step = q.step /\ n.left = q.left
      /\ n.waits = q.waits /\ n.held = q.held
  BY DEF IsRequest, RequestFields
<1> QED
  BY <1>1 DEF LocksOK, PositionOK, HeldOK, Locked, SortedOK, WaitsOK

(* A request that moves keeps the locks in order if its own are, and if those *)
(* it takes are in conflict with nobody's.                                    *)
LEMMA LocksMoveOK ==
    ASSUME LocksInv, RequestsOK, NEW p \in Requests,
           \A r \in Requests \ {p} :
               \/ req'[r] = req[r]
               \/ Active(r) /\ \E S : req'[r] = [req[r] EXCEPT !.stale = S],
           HoldsConnection(p)' => LocksOK(req'[p]),
           Active(p)' => \A a \in req'[p].held :
               \/ Active(p) /\ a \in req[p].held
               \/ \A s \in Requests \ {p} : Active(s) =>
                     \A b \in req[s].held : a[1] = b[1] => ~Conflict(a[2], b[2])
    PROVE  LocksInv'
<1>1. ASSUME NEW r \in Requests \ {p}
      PROVE  /\ Active(r)' = Active(r) /\ HoldsConnection(r)' = HoldsConnection(r)
             /\ Active(r) => req'[r].held = req[r].held
             /\ LocksOK(req[r]) => LocksOK(req'[r])
  <2>1. CASE req'[r] = req[r]
    BY <2>1 DEF Active, HoldsConnection
  <2>2. CASE Active(r) /\ \E S : req'[r] = [req[r] EXCEPT !.stale = S]
    <3>1. IsRequest(req[r])
      BY <2>2 DEF RequestsOK, RequestOK
    <3>2. /\ req'[r].pc = req[r].pc /\ req'[r].held = req[r].held
          /\ LocksOK(req[r]) => LocksOK(req'[r])
      BY <2>2, <3>1, StaleApart
    <3> QED
      BY <3>2 DEF Active, HoldsConnection
  <2> QED
    BY <2>1, <2>2
<1>2. ASSUME NEW r \in Requests, HoldsConnection(r)'
      PROVE  LocksOK(req'[r])
  BY <1>1, <1>2 DEF LocksInv
<1>3. ASSUME NEW a, NEW b, a[1] = b[1] => ~Conflict(a[2], b[2])
      PROVE  b[1] = a[1] => ~Conflict(b[2], a[2])
  BY <1>3 DEF Conflict
<1>4. ASSUME NEW s \in Requests \ {p}, Active(p)', Active(s)'
      PROVE  \A a \in req'[p].held, b \in req'[s].held : a[1] = b[1] => ~Conflict(a[2], b[2])
  <2>1. Active(s) /\ req'[s].held = req[s].held
    BY <1>1, <1>4
  <2>2. Active(p) => \A a \in req[p].held, b \in req[s].held : a[1] = b[1] => ~Conflict(a[2], b[2])
    BY <2>1 DEF LocksInv, Exclusive
  <2> QED
    BY <1>4, <2>1, <2>2
<1>5. ASSUME NEW r \in Requests \ {p}, NEW s \in Requests \ {p}, r # s, Active(r)', Active(s)'
      PROVE  \A a \in req'[r].held, b \in req'[s].held : a[1] = b[1] => ~Conflict(a[2], b[2])
  <2>1. /\ Active(r) /\ req'[r].held = req[r].held
        /\ Active(s) /\ req'[s].held = req[s].held
    BY <1>1, <1>5
  <2> QED
    BY <1>5, <2>1 DEF LocksInv, Exclusive
<1>6. ASSUME NEW r \in Requests \ {p}, Active(r)', Active(p)'
      PROVE  \A a \in req'[r].held, b \in req'[p].held : a[1] = b[1] => ~Conflict(a[2], b[2])
  BY <1>3, <1>4, <1>6
<1>7. Exclusive'
  BY <1>4, <1>5, <1>6 DEF Exclusive
<1> QED
  BY <1>2, <1>7 DEF LocksInv

(* The first statement of a transaction is before its first row.              *)
LEMMA FirstLocksOK ==
    ASSUME NEW q, q.job \in [op : Commands, user : Users], q.step = 1,
           q.left = RowsAt(q.job, 1), q.waits = {}, q.held = {}
    PROVE  LocksOK(q)
<1>1. PICK P : P = Program(q.job)
  OBVIOUS
<1>2. /\ Len(P) \in Nat
      /\ \A i \in 1 .. Len(P) : P[i].ordered => P[i].rows = AdminRows
  BY <1>1, StatementsOK
<1>3. Len(P) >= 1 => q.left = P[1].rows
  BY <1>1, <1>2 DEF RowsAt
<1>4. PositionOK(q)
  BY <1>1, <1>2 DEF PositionOK
<1>5. HeldOK(q)
  BY <1>1, <1>2, <1>3 DEF HeldOK
<1>6. SortedOK(q)
  BY <1>1, <1>2, <1>3 DEF SortedOK, AdminRows
<1> QED
  BY <1>4, <1>5, <1>6 DEF LocksOK, WaitsOK

(* What NextRows offers is left; super_admins are taken in their order.       *)
LEMMA NextRowsOK ==
    ASSUME NEW p \in Requests, Running(p), LocksOK(req[p]), NEW row \in NextRows(p)
    PROVE  /\ row \in req[p].left
           /\ Current(p).ordered =>
                \A i, j \in DOMAIN Admins : i < j /\ Admins[j] = row => Admins[i] \notin req[p].left
<1>1. CASE req[p].waits # {}
  BY <1>1 DEF NextRows, LocksOK, PositionOK, SortedOK, Current, Running
<1>2. CASE req[p].waits = {} /\ Current(p).ordered
  <2>1. PICK j \in DOMAIN Admins :
          /\ row = Admins[j] /\ Admins[j] \in req[p].left
          /\ \A k \in 1 .. j - 1 : Admins[k] \notin req[p].left
    BY <1>2 DEF NextRows
  <2>2. \A i \in DOMAIN Admins : i \in Int /\ i >= 1
    BY AdminsAssumption
  <2>3. \A i \in DOMAIN Admins : Admins[i] = row => i = j
    BY <2>1, AdminsAssumption
  <2> QED
    BY <2>1, <2>2, <2>3
<1>3. CASE req[p].waits = {} /\ ~Current(p).ordered
  BY <1>3 DEF NextRows
<1> QED
  BY <1>1, <1>2, <1>3

(* A lock that nobody blocks is in conflict with nobody's.                    *)
LEMMA UnblockedOK ==
    ASSUME LocksInv, RequestsOK, NEW p \in Requests, NEW row, Blockers(p, row) = {},
           NEW s \in Requests \ {p}, Active(s), NEW b \in req[s].held, b[1] = row
    PROVE  ~Conflict(Current(p).mode, b[2])
<1>1. HoldsConnection(s) /\ req[s].job \in Jobs[s]
  BY DEF RequestsOK, RequestOK
<1>2. PICK i \in 1 .. Len(Program(req[s].job)) : b = <<row, Program(req[s].job)[i].mode>>
  BY <1>1 DEF LocksInv, LocksOK, HeldOK, Locked
<1>3. Program(req[s].job)[i].mode \in Modes
  BY <1>1, JobTyped, StatementsOK
<1>4. PICK m \in Modes : m = b[2] /\ <<row, m>> \in req[s].held
  BY <1>2, <1>3
<1>5. ~Conflict(m, Current(p).mode)
  BY <1>4 DEF Blockers
<1> QED
  BY <1>4, <1>5 DEF Conflict

(* LockRow of one request, its position and its locks.                        *)
LEMMA LockedOK ==
    ASSUME NEW q, LocksOK(q), q.job \in [op : Commands, user : Users],
           NEW P, P = Program(q.job), NEW k, k = q.step, k <= Len(P), NEW row \in q.left,
           P[k].ordered =>
             \A i, j \in DOMAIN Admins : i < j /\ Admins[j] = row => Admins[i] \notin q.left,
           NEW n, n.job = q.job, n.held = q.held \cup {<<row, P[k].mode>>}, n.waits = {},
           NEW left, left = q.left \ {row},
           \/ left = {} /\ n.step = k + 1 /\ n.left = RowsAt(q.job, k + 1)
           \/ left # {} /\ n.step = k /\ n.left = left
    PROVE  LocksOK(n)
<1>1. /\ Len(P) \in Nat
      /\ \A i \in 1 .. Len(P) : P[i].ordered => P[i].rows = AdminRows
  BY StatementsOK
<1>2. k \in 1 .. Len(P) /\ q.left \subseteq P[k].rows
  BY <1>1 DEF LocksOK, PositionOK, RowsAt
<1>3. k + 1 <= Len(P) => RowsAt(q.job, k + 1) = P[k + 1].rows
  BY DEF RowsAt
<1>4. PositionOK(n)
  BY <1>1, <1>2 DEF PositionOK, LocksOK, RowsAt
<1>5. ASSUME NEW lock \in n.held PROVE Locked(n, lock)
  <2>1. CASE lock = <<row, P[k].mode>>
    <3>1. lock[1] = row
      BY <2>1
    <3>2. n.step = k => row \notin n.left
      BY <1>2
    <3> QED
      BY <1>2, <2>1, <3>1, <3>2 DEF Locked
  <2>2. CASE lock \in q.held
    <3>1. PICK i \in 1 .. Len(P) : /\ i <= k /\ lock = <<lock[1], P[i].mode>>
                                   /\ lock[1] \in P[i].rows
                                   /\ i = k => lock[1] \notin q.left
      BY <2>2 DEF LocksOK, HeldOK, Locked
    <3>2. i <= n.step /\ (i = n.step => lock[1] \notin n.left)
      BY <1>2, <3>1
    <3> QED
      BY <3>1, <3>2 DEF Locked
  <2> QED
    BY <2>1, <2>2
<1>6. ASSUME NEW i \in 1 .. Len(P), NEW x \in P[i].rows,
             i < n.step \/ (i = n.step /\ x \notin n.left)
      PROVE  <<x, P[i].mode>> \in n.held
  <2>1. CASE i < k \/ (i = k /\ x \notin q.left)
    BY <2>1 DEF LocksOK, HeldOK
  <2>2. CASE i = k /\ x \in q.left
    <3>1. x = row
      BY <1>2, <1>6, <2>2
    <3> QED
      BY <2>2, <3>1
  <2>3. CASE i > k
    BY <1>2, <1>3, <1>6, <2>3
  <2> QED
    BY <1>2, <2>1, <2>2, <2>3
<1>7. HeldOK(n)
  BY <1>5, <1>6 DEF HeldOK
<1>8. SortedOK(n)
  <2> SUFFICES ASSUME n.step <= Len(P), P[n.step].ordered,
                      NEW i \in DOMAIN Admins, NEW j \in DOMAIN Admins, i < j, Admins[i] \in n.left
               PROVE  Admins[j] \in n.left
    BY DEF SortedOK
  <2>1. CASE n.step = k + 1
    <3>1. n.left = AdminRows
      BY <1>1, <1>2, <1>3, <2>1
    <3> QED
      BY <3>1 DEF AdminRows
  <2>2. CASE n.step = k /\ n.left = left
    <3>1. Admins[j] \in q.left
      BY <2>2 DEF LocksOK, SortedOK
    <3>2. Admins[j] # row
      BY <2>2
    <3> QED
      BY <2>2, <3>1, <3>2
  <2> QED
    BY <1>2, <2>1, <2>2
<1> QED
  BY <1>4, <1>7, <1>8 DEF LocksOK, WaitsOK

(* LockRow takes a free row, and no other than the next.                      *)
LEMMA LockRowLocks ==
    ASSUME LocksInv, RequestsOK, NEW p \in Requests, LockRow(p)
    PROVE  LocksInv'
<1>1. /\ Running(p) /\ Active(p) /\ HoldsConnection(p) /\ IsRequest(req[p]) /\ LocksOK(req[p])
      /\ req[p].job \in Jobs[p] /\ req[p].pc = "run"
  BY DEF LockRow, Running, In, Active, Settled, HoldsConnection, RequestsOK, RequestOK, LocksInv
<1>2. req[p].job \in [op : Commands, user : Users]
  BY <1>1, JobTyped
<1>3. PICK P, k : P = Program(req[p].job) /\ k = req[p].step
  OBVIOUS
<1>4. k <= Len(P) /\ P[k] = Current(p)
  BY <1>1, <1>3 DEF Running, Current
<1>5. PICK row \in NextRows(p) :
        /\ Blockers(p, row) = {}
        /\ LET left == req[p].left \ {row}
               next == IF left = {} THEN k + 1 ELSE k
           IN Becomes(p, [req[p] EXCEPT
                  !.held = @ \cup {<<row, Current(p).mode>>}, !.waits = {}, !.step = next,
                  !.left = IF left = {} THEN RowsAt(req[p].job, next) ELSE left])
  BY <1>3 DEF LockRow
<1>6. PICK left, next, after, n :
        /\ left = req[p].left \ {row}
        /\ next = (IF left = {} THEN k + 1 ELSE k)
        /\ after = (IF left = {} THEN RowsAt(req[p].job, next) ELSE left)
        /\ n = [req[p] EXCEPT !.held = @ \cup {<<row, Current(p).mode>>}, !.waits = {},
                              !.step = next, !.left = after]
        /\ Becomes(p, n)
  BY <1>5
<1>7. /\ n.pc = "run" /\ n.job = req[p].job /\ n.step = next /\ n.left = after /\ n.waits = {}
      /\ n.held = req[p].held \cup {<<row, P[k].mode>>}
  BY <1>1, <1>4, <1>6 DEF IsRequest, RequestFields
<1>8. /\ row \in req[p].left
      /\ P[k].ordered =>
           \A i, j \in DOMAIN Admins : i < j /\ Admins[j] = row => Admins[i] \notin req[p].left
  BY <1>1, <1>4, <1>5, NextRowsOK
<1>9. LocksOK(n)
  <2>1. \/ left = {} /\ n.step = k + 1 /\ n.left = RowsAt(req[p].job, k + 1)
        \/ left # {} /\ n.step = k /\ n.left = left
    BY <1>6, <1>7
  <2>2. PICK q : q = req[p]
    OBVIOUS
  <2>3. /\ LocksOK(q) /\ q.job \in [op : Commands, user : Users]
        /\ P = Program(q.job) /\ k = q.step /\ k <= Len(P) /\ row \in q.left
        /\ P[k].ordered =>
             \A i, j \in DOMAIN Admins : i < j /\ Admins[j] = row => Admins[i] \notin q.left
        /\ n.job = q.job /\ n.held = q.held \cup {<<row, P[k].mode>>} /\ n.waits = {}
        /\ left = q.left \ {row}
        /\ \/ left = {} /\ n.step = k + 1 /\ n.left = RowsAt(q.job, k + 1)
           \/ left # {} /\ n.step = k /\ n.left = left
    BY <1>1, <1>2, <1>3, <1>4, <1>6, <1>7, <1>8, <2>1, <2>2
  <2> QED
    BY ONLY <2>3, LockedOK
<1>10. req'[p] = n /\ \A r \in Requests \ {p} : req'[r] = req[r]
  BY <1>6 DEF Becomes, RequestsOK
<1>11. ASSUME NEW s \in Requests \ {p}, Active(s), NEW b \in req[s].held, b[1] = row
       PROVE  ~Conflict(P[k].mode, b[2])
  BY <1>4, <1>5, <1>11, UnblockedOK
<1>12. ASSUME NEW a \in n.held, a \notin req[p].held, NEW s \in Requests \ {p}, Active(s),
              NEW b \in req[s].held, a[1] = b[1]
       PROVE  ~Conflict(a[2], b[2])
  <2>1. a = <<row, P[k].mode>>
    BY <1>7, <1>12
  <2>2. a[1] = row /\ a[2] = P[k].mode
    BY <2>1
  <2> QED
    BY <1>11, <1>12, <2>2
<1> QED
  BY <1>1, <1>9, <1>10, <1>12, LocksMoveOK

(* Waiting is for a row that is left, and that another has.                   *)
LEMMA WaitLocks ==
    ASSUME LocksInv, RequestsOK, NEW p \in Requests, Wait(p)
    PROVE  LocksInv'
<1>1. /\ Running(p) /\ Active(p) /\ HoldsConnection(p) /\ IsRequest(req[p]) /\ LocksOK(req[p])
      /\ req[p].pc = "run"
  BY DEF Wait, Running, In, Active, Settled, HoldsConnection, RequestsOK, RequestOK, LocksInv
<1>2. PICK row \in NextRows(p) :
        Blockers(p, row) # {} /\ \E n : n = [req[p] EXCEPT !.waits = {row}] /\ Becomes(p, n)
  BY DEF Wait
<1>3. PICK n : n = [req[p] EXCEPT !.waits = {row}] /\ Becomes(p, n)
  BY <1>2
<1>4. /\ n.pc = "run" /\ n.job = req[p].job /\ n.step = req[p].step /\ n.left = req[p].left
      /\ n.waits = {row} /\ n.held = req[p].held
  BY <1>1, <1>3 DEF IsRequest, RequestFields
<1>5. /\ row \in req[p].left
      /\ Current(p).ordered =>
           \A i, j \in DOMAIN Admins : i < j /\ Admins[j] = row => Admins[i] \notin req[p].left
  BY <1>1, <1>2, NextRowsOK
<1>6. PositionOK(n) /\ HeldOK(n)
  BY <1>1, <1>4, <1>5 DEF LocksOK, PositionOK, HeldOK, Locked
<1>7. SortedOK(n)
  BY <1>1, <1>4, <1>5 DEF LocksOK, SortedOK, Current
<1>8. WaitsOK(n)
  <2> SUFFICES ASSUME NEW lock \in req[p].held, lock[1] = row, lock[2] = "for_update" PROVE FALSE
    BY <1>4 DEF WaitsOK
  <2>1. PICK s \in Requests \ {p}, m \in Modes : Active(s) /\ <<row, m>> \in req[s].held
    BY <1>2 DEF Blockers
  <2>2. PICK b \in req[s].held : b = <<row, m>>
    BY <2>1
  <2>3. lock[1] = b[1] => ~Conflict(lock[2], b[2])
    BY <1>1, <2>1, <2>2 DEF LocksInv, Exclusive
  <2> QED
    BY <2>2, <2>3 DEF Conflict
<1>9. req'[p] = n /\ \A r \in Requests \ {p} : req'[r] = req[r]
  BY <1>3 DEF Becomes, RequestsOK
<1> QED
  BY <1>1, <1>4, <1>6, <1>7, <1>8, <1>9, LocksMoveOK DEF LocksOK

(* A new transaction has no locks; one that hands over to the mail server     *)
(* keeps its own.                                                             *)
LEMMA BeginSendLocks ==
    ASSUME LocksInv, RequestsOK, NEW p \in Requests, BeginTx(p) \/ Send(p)
    PROVE  LocksInv'
<1>1. Active(p) /\ IsRequest(req[p]) /\ req[p].job \in Jobs[p]
  BY DEF BeginTx, Send, Executed, In, Active, Settled, RequestsOK, RequestOK
<1>2. CASE BeginTx(p)
  <2>1. PICK q, n : /\ q = Released(p, "run")
                    /\ n = [q EXCEPT !.left = RowsAt(req[p].job, 1)]
                    /\ Becomes(p, n)
    BY <1>2 DEF BeginTx
  <2>2. IsRequest(q) /\ q.job = req[p].job /\ q.step = 1 /\ q.waits = {} /\ q.held = {}
    BY <1>1, <2>1 DEF Released, IsRequest, RequestFields
  <2>3. /\ n.job = req[p].job /\ n.step = 1 /\ n.waits = {} /\ n.held = {}
        /\ n.left = RowsAt(n.job, 1)
    BY <2>1, <2>2 DEF IsRequest, RequestFields
  <2>4. LocksOK(n)
    BY <1>1, <2>3, JobTyped, FirstLocksOK
  <2>5. req'[p] = n /\ \A r \in Requests \ {p} : req'[r] = req[r]
    BY <2>1 DEF Becomes, RequestsOK
  <2> QED
    BY <2>3, <2>4, <2>5, LocksMoveOK
<1>3. CASE Send(p)
  <2>1. HoldsConnection(p) /\ LocksOK(req[p])
    BY <1>3 DEF Send, Executed, In, HoldsConnection, LocksInv
  <2>2. PICK n : n = [req[p] EXCEPT !.pc = "mail"] /\ Becomes(p, n)
    BY <1>3 DEF Send
  <2>3. /\ n.job = req[p].job /\ n.step = req[p].step /\ n.left = req[p].left
        /\ n.waits = req[p].waits /\ n.held = req[p].held
    BY <1>1, <2>2 DEF IsRequest, RequestFields
  <2>4. LocksOK(n)
    BY <2>1, <2>3 DEF LocksOK, PositionOK, HeldOK, Locked, SortedOK, WaitsOK
  <2>5. req'[p] = n /\ \A r \in Requests \ {p} : req'[r] = req[r]
    BY <2>2 DEF Becomes, RequestsOK
  <2> QED
    BY <1>1, <2>3, <2>4, <2>5, LocksMoveOK
<1> QED
  BY <1>2, <1>3

(* Whoever gives up its connection gives up its locks.                        *)
LEMMA FreedLocks ==
    ASSUME LocksInv, RequestsOK, NEW p \in Requests,
           \A r \in Requests \ {p} :
               \/ req'[r] = req[r]
               \/ Active(r) /\ \E S : req'[r] = [req[r] EXCEPT !.stale = S],
           RequestsOK', ~HoldsConnection(p)'
    PROVE  LocksInv'
<1>1. Active(p)' => req'[p].held = {}
  BY DEF RequestsOK, RequestOK
<1> QED
  BY <1>1, LocksMoveOK

(* Every step keeps the locks in order.                                       *)
LEMMA LocksIInv ==
    ASSUME LocksInv, IInv, IInv', [Next]_vars
    PROVE  LocksInv'
<1>1. RequestsOK /\ RequestsOK'
  BY DEF IInv
<1>2. CASE UNCHANGED req
  BY <1>2 DEF LocksInv, Exclusive, Active, HoldsConnection
<1>3. CASE Gone \/ req' = [r \in Requests |-> Idle]
  <2>1. \A r \in Requests : ~Active(r)' /\ ~HoldsConnection(r)'
    BY <1>3 DEF Gone, Idle, Active, Settled, HoldsConnection
  <2> QED
    BY <2>1 DEF LocksInv, Exclusive
<1>4. ASSUME NEW p \in Requests, Accept(p) \/ Step(p) \/ MailAnswered(p)
      PROVE  LocksInv'
  <2>1. ASSUME NEW rec, Becomes(p, rec), rec.pc \notin {"run", "mail"}
        PROVE  LocksInv'
    <3>1. req'[p] = rec /\ \A r \in Requests \ {p} : req'[r] = req[r]
      BY <1>1, <2>1 DEF Becomes, RequestsOK
    <3> QED
      BY <1>1, <2>1, <3>1, FreedLocks DEF HoldsConnection
  <2>2. ASSUME Active(p), NEW pc \in {"begin", "reply"}, Becomes(p, Released(p, pc))
        PROVE  LocksInv'
    <3>1. Released(p, pc).pc = pc
      BY <1>1, <2>2, ReleasedFields DEF RequestsOK, RequestOK
    <3> QED
      BY <2>1, <2>2, <3>1
  <2>3. ASSUME Active(p), Committed(p) PROVE LocksInv'
    <3>1. req'[p] = Released(p, "reply")
      BY <2>3 DEF Committed
    <3>2. Released(p, "reply").pc = "reply"
      BY <1>1, <2>3, ReleasedFields DEF RequestsOK, RequestOK
    <3>3. ASSUME NEW r \in Requests \ {p}
          PROVE  \/ req'[r] = req[r]
                 \/ Active(r) /\ \E S : req'[r] = [req[r] EXCEPT !.stale = S]
      BY <2>3 DEF Committed, HasSnapshot, AtFirstStatement, In, Active, Settled
    <3> QED
      BY <1>1, <3>1, <3>2, <3>3, FreedLocks DEF HoldsConnection
  <2>4. CASE Accept(p)
    <3>1. PICK rec : Becomes(p, rec) /\ rec.pc = "begin"
      BY <2>4 DEF Accept, Fresh
    <3> QED
      BY <2>1, <3>1
  <2>5. CASE Retry(p)
    <3>1. Active(p) /\ IsRequest(req[p])
      BY <1>1, <2>5 DEF Retry, Running, In, Active, Settled, RequestsOK, RequestOK
    <3>2. CASE Becomes(p, Released(p, "reply"))
      BY <2>2, <3>1, <3>2
    <3>3. CASE Becomes(p, [Released(p, "begin") EXCEPT !.tries = @ + 1])
      <4>1. PICK rec : rec = [Released(p, "begin") EXCEPT !.tries = @ + 1] /\ Becomes(p, rec)
        BY <3>3
      <4>2. rec.pc = "begin"
        BY <3>1, <4>1, ReleasedFields DEF IsRequest, RequestFields
      <4> QED
        BY <2>1, <4>1, <4>2
    <3> QED
      BY <2>5, <3>2, <3>3 DEF Retry
  <2>6. CASE Refuse(p) \/ Victim(p) \/ TimeOut(p) \/ PoolClosed(p)
    <3>1. Active(p) /\ Becomes(p, Released(p, "reply"))
      BY <2>6 DEF Refuse, Victim, TimeOut, PoolClosed, Running, In, Active, Settled
    <3> QED
      BY <2>2, <3>1
  <2>7. CASE Commit(p)
    BY <2>3, <2>7 DEF Commit, Executed, In, Active, Settled
  <2>8. CASE MailAnswered(p)
    <3>1. Active(p)
      BY <2>8 DEF MailAnswered, In, Active, Settled
    <3>2. CASE Becomes(p, [pc |-> "lost"])
      BY <2>1, <3>2
    <3> QED
      BY <2>2, <2>3, <2>8, <3>1, <3>2 DEF MailAnswered
  <2>9. CASE Reply(p)
    <3>1. PICK rec : Becomes(p, rec) /\ rec.pc = "answered"
      BY <2>9 DEF Reply
    <3> QED
      BY <2>1, <3>1
  <2> QED
    BY <1>1, <1>4, <2>4, <2>5, <2>6, <2>7, <2>8, <2>9, LockRowLocks, WaitLocks, BeginSendLocks
       DEF Step, Database
<1> QED
  BY <1>2, <1>3, <1>4 DEF Next, vars, Start, Signal, Kill, Main, Connect, Migrate, Apply, Serve,
                          Shutdown, CloseRedis, ClosePool, Exit

(* At the start nothing is locked.                                            *)
LEMMA InitLocks == Init => LocksInv
BY DEF Init, Idle, LocksInv, Exclusive, Active, Settled, HoldsConnection

(* LockActiveSuperAdmins and the order of the statements: whatever commands   *)
(* run, however many and on whichever rows, account changes alone never close *)
(* a cycle of waits.                                                          *)
THEOREM NeverDeadlock == Spec => []AccountChangesNeverDeadlock
<1>1. IInv /\ LocksInv => AccountChangesNeverDeadlock
  BY LocksKeepOrder DEF IInv
<1>2. LocksInv /\ IInv /\ IInv' /\ [Next]_vars => LocksInv'
  BY LocksIInv
<1> QED
  BY <1>1, <1>2, InitLocks, Invariant, PTL DEF Spec
=============================================================================
