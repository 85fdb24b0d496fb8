------------------------------- MODULE Server -------------------------------
(* The process of cmd/auth: start-up with its migrations, the requests it     *)
(* serves through a pool of connections, the row locks their statements take  *)
(* in PostgreSQL, the mail sent while a transaction is open, and the shutdown *)
(* that a signal starts. Rows have no content here: what the statements do to *)
(* them is the subject of AuthService and Onboarding.                         *)
EXTENDS Integers, Sequences, FiniteSets

CONSTANTS Requests,     \* requests that may be in flight
          Jobs,         \* [Requests -> the commands it may be]
          Admins,       \* the super_admins, in the order of their user_uuid
          TokensOf,     \* [user -> rows of its refresh tokens]
          PoolSize,     \* connections of the pool
          MaxTries,     \* tries of updateInTxWithIsolation (10 in the code)
          LastVersion   \* the newest migration

VARIABLES phase,     \* what main is doing
          signalled, \* SIGINT or SIGTERM arrived: ctx is cancelled
          schema,    \* the row of schema_migrations: version and dirty flag
          req        \* [Requests -> the request]

vars == <<phase, signalled, schema, req>>
process == <<phase, signalled, schema>>

AdminRows == {Admins[i] : i \in DOMAIN Admins}
Users == DOMAIN TokensOf
Commands == {"disable_super", "disable", "reactivate", "change", "confirm",
             "login", "rotate", "revoke_family", "issue"}

ASSUME CommandsAssumption == Jobs \in [Requests -> SUBSET [op : Commands, user : Users]]
ASSUME RequestsAssumption == IsFiniteSet(Requests)
ASSUME SizesAssumption == /\ PoolSize \in Nat \ {0} /\ MaxTries \in Nat \ {0}
                          /\ LastVersion \in Nat \ {0}

-----------------------------------------------------------------------------
(* The statements of a command: the rows they lock, how, and in which order.  *)

Modes == {"key_share", "update", "for_update"}

Conflict(m, n) == "for_update" \in {m, n} \/ (m = "update" /\ n = "update")

Statement(rows, mode) == [rows |-> rows, mode |-> mode, ordered |-> FALSE]

(* The valid one-time token of a user, as a row. "issue" locks every one it   *)
(* invalidates: one at most, as long as no limiter failed open.               *)
OneTime(u) == <<"one_time", u>>

(* user_uuid is a key, and a row belongs to one table; a token to one user.   *)
ASSUME AdminsAssumption ==
    /\ Admins \in Seq(Users)
    /\ \A i, j \in DOMAIN Admins : Admins[i] = Admins[j] => i = j
ASSUME RowsAssumption ==
    \A u, v \in Users :
        /\ OneTime(u) \notin Users \cup TokensOf[v]
        /\ TokensOf[u] \cap Users = {}
        /\ u # v => TokensOf[u] \cap TokensOf[v] = {}

(* INSERT into a table that references the user takes KEY SHARE on its row.   *)
Referring(u) == Statement({u}, "key_share")
UpdateUser(u) == Statement({u}, "update")
RevokeByUser(u) == Statement(TokensOf[u], "update")

(* Mutant: no ORDER BY, rows are locked as they are found.                    *)
LockActiveSuperAdmins_Unordered == Statement(AdminRows, "for_update")

LockActiveSuperAdmins == [rows |-> AdminRows, mode |-> "for_update", ordered |-> TRUE]

(* A statement that finds no row takes no lock.                               *)
Locking(st) == IF st.rows = {} THEN << >> ELSE <<st>>

Program(job) ==
    LET u == job.user
        Revoking == <<UpdateUser(u)>> \o Locking(RevokeByUser(u))
    IN CASE job.op = "disable_super" -> Locking(LockActiveSuperAdmins) \o Revoking
         [] job.op \in {"disable", "change"} -> Revoking
         [] job.op = "confirm" -> <<Statement({OneTime(u)}, "update")>> \o Revoking
         [] job.op = "reactivate" -> <<UpdateUser(u)>>
         [] job.op = "login" -> <<Referring(u)>>
         [] job.op = "rotate" -> <<Statement({CHOOSE t \in TokensOf[u] : TRUE}, "update"), Referring(u)>>
         [] job.op = "revoke_family" -> Locking(RevokeByUser(u))
         [] job.op = "issue" -> <<Statement({OneTime(u)}, "update"), Referring(u)>>

RowsAt(job, step) == IF step <= Len(Program(job)) THEN Program(job)[step].rows ELSE {}

(* Single statements run without a transaction, at READ COMMITTED.            *)
InTransaction(job) == job.op \notin {"reactivate", "login", "revoke_family"}
Mails(job) == job.op = "issue"

-----------------------------------------------------------------------------
Idle == [pc |-> "idle"]
Fresh(job) ==
    [pc |-> "begin", job |-> job, step |-> 1, left |-> {}, waits |-> {},
     held |-> {}, stale |-> {}, tries |-> 1]

In(r, pc) == req[r].pc = pc
Settled == {"idle", "answered", "lost"}
Active(r) == req[r].pc \notin Settled

(* Mutant: a request whose answer cannot be written keeps its connection.     *)
HoldsConnection_Kept(r) == req[r].pc \in {"run", "mail", "lost"}

HoldsConnection(r) == req[r].pc \in {"run", "mail"}
FreeConnection == Cardinality({r \in Requests : HoldsConnection(r)}) < PoolSize

(* The pool hands out connections until pool.Close is called.                 *)
PoolOpen == phase \in {"listening", "serving", "stopping", "redis_closed"}

Init ==
    /\ phase = "down" /\ signalled = FALSE
    /\ schema = [version |-> 0, dirty |-> FALSE]
    /\ req = [r \in Requests |-> Idle]

-----------------------------------------------------------------------------
(* main and build.                                                            *)

(* What the process had in hand is gone; PostgreSQL rolls back its locks.     *)
Gone == req' = [r \in Requests |-> IF Active(r) THEN [pc |-> "lost"] ELSE req[r]]

Start ==
    /\ phase \in {"down", "failed", "exited"}
    /\ phase' = "connecting" /\ signalled' = FALSE
    /\ req' = [r \in Requests |-> Idle]
    /\ UNCHANGED schema

(* The environment, the pool's ping, the ping of Redis, the signing key, and  *)
(* CREATE SCHEMA: each ends in os.Exit(1) if it fails, as after a signal the  *)
(* calls that take ctx do.                                                    *)
Connect ==
    /\ phase = "connecting"
    /\ phase' \in {"migrating", "failed"}
    /\ UNCHANGED <<signalled, schema, req>>

(* Mutant: the error of m.Up is logged and the service is built all the same. *)
Migrate_ErrorIgnored ==
    /\ phase = "migrating"
    /\ \/ /\ ~schema.dirty /\ schema.version < LastVersion
          /\ schema' = [version |-> schema.version + 1, dirty |-> TRUE]
          /\ phase' = "applying"
       \/ /\ schema.version = LastVersion \/ signalled \/ schema.dirty
          /\ phase' = "listening" /\ UNCHANGED schema
    /\ UNCHANGED <<signalled, req>>

(* m.Up: refuses a dirty schema, marks the next version dirty, and ends early *)
(* without an error when the signal made it stop.                             *)
Migrate ==
    /\ phase = "migrating"
    /\ \/ schema.dirty /\ phase' = "failed" /\ UNCHANGED schema
       \/ /\ ~schema.dirty /\ schema.version < LastVersion
          /\ schema' = [version |-> schema.version + 1, dirty |-> TRUE]
          /\ phase' = "applying"
       \/ /\ ~schema.dirty /\ (schema.version = LastVersion \/ signalled)
          /\ phase' = "listening" /\ UNCHANGED schema
    /\ UNCHANGED <<signalled, req>>

(* The migration's own SQL: applied, or failed and left dirty.                *)
Apply ==
    /\ phase = "applying"
    /\ \/ schema' = [schema EXCEPT !.dirty = FALSE] /\ phase' = "migrating"
       \/ phase' = "failed" /\ UNCHANGED schema
    /\ UNCHANGED <<signalled, req>>

(* e.Start; the port may be taken.                                            *)
Serve ==
    /\ phase = "listening"
    /\ phase' \in {"serving", "failed"}
    /\ UNCHANGED <<signalled, schema, req>>

Signal ==
    /\ phase \notin {"down", "failed", "exited"} /\ ~signalled
    /\ signalled' = TRUE
    /\ UNCHANGED <<phase, schema, req>>

(* The goroutine of Run calls e.Shutdown: the listener closes and e.Start     *)
(* returns ErrServerClosed at once, so Run returns while requests run on. It  *)
(* may do so before e.Start was called.                                       *)
Shutdown ==
    /\ phase \in {"listening", "serving"} /\ signalled
    /\ phase' = "stopping"
    /\ UNCHANGED <<signalled, schema, req>>

(* main's deferred calls, last first: Redis, the pool, cancel.                *)
CloseRedis ==
    /\ phase = "stopping" /\ phase' = "redis_closed"
    /\ UNCHANGED <<signalled, schema, req>>

(* Mutant: the pool is not closed on the way out.                             *)
ClosePool_Skipped ==
    /\ phase = "redis_closed" /\ phase' = "exited"
    /\ Gone
    /\ UNCHANGED <<signalled, schema>>

ClosePool ==
    /\ phase = "redis_closed" /\ phase' = "pool_closing"
    /\ UNCHANGED <<signalled, schema, req>>

(* pool.Close returns when every connection was given back.                   *)
Exit ==
    /\ phase = "pool_closing" /\ ~\E r \in Requests : HoldsConnection(r)
    /\ phase' = "exited"
    /\ Gone
    /\ UNCHANGED <<signalled, schema>>

(* SIGKILL, a crash of the host, a panic outside a handler.                   *)
Kill ==
    /\ phase \notin {"down", "failed", "exited"}
    /\ phase' = "failed"
    /\ Gone
    /\ UNCHANGED <<signalled, schema>>

-----------------------------------------------------------------------------
(* A request.                                                                 *)

Becomes(r, rec) == req' = [req EXCEPT ![r] = rec]

Accept(r) ==
    /\ phase = "serving" /\ In(r, "idle")
    /\ \E job \in Jobs[r] : Becomes(r, Fresh(job))
    /\ UNCHANGED process

(* The transaction ends without effect: locks and connection are given back.  *)
Released(r, pc) ==
    [req[r] EXCEPT !.pc = pc, !.step = 1, !.left = {}, !.waits = {}, !.held = {}, !.stale = {}]

(* Mutant: connections are opened beside the pool.                            *)
BeginTx_Unpooled(r) ==
    /\ In(r, "begin") /\ PoolOpen
    /\ Becomes(r, [Released(r, "run") EXCEPT !.left = RowsAt(req[r].job, 1)])
    /\ UNCHANGED process

(* The reads of the command's checks take a connection in the same way, and   *)
(* end the command as Refuse does.                                            *)
BeginTx(r) ==
    /\ In(r, "begin") /\ PoolOpen /\ FreeConnection
    /\ Becomes(r, [Released(r, "run") EXCEPT !.left = RowsAt(req[r].job, 1)])
    /\ UNCHANGED process

Current(r) == Program(req[r].job)[req[r].step]
Running(r) == In(r, "run") /\ req[r].step <= Len(Program(req[r].job))
Executed(r) == In(r, "run") /\ req[r].step > Len(Program(req[r].job))

(* Rows the current statement may lock next: in order, or as the scan finds   *)
(* them; once it waits for a row it stays with it.                            *)
NextRows(r) ==
    LET left == req[r].left
    IN CASE req[r].waits # {} -> req[r].waits
         [] req[r].waits = {} /\ Current(r).ordered ->
              {Admins[i] : i \in {j \in DOMAIN Admins :
                  Admins[j] \in left /\ \A k \in 1 .. j - 1 : Admins[k] \notin left}}
         [] OTHER -> left

Blockers(r, row) ==
    {s \in Requests \ {r} : Active(s) /\
        \E m \in Modes : <<row, m>> \in req[s].held /\ Conflict(m, Current(r).mode)}

(* REPEATABLE READ: a row another transaction changed since the snapshot.     *)
Serialized(r, row) ==
    InTransaction(req[r].job) /\ Current(r).mode # "key_share" /\ row \in req[r].stale

LockRow(r) ==
    /\ Running(r)
    /\ \E row \in NextRows(r) :
          /\ Blockers(r, row) = {} /\ ~Serialized(r, row)
          /\ LET left == req[r].left \ {row}
                 next == IF left = {} THEN req[r].step + 1 ELSE req[r].step
             IN Becomes(r, [req[r] EXCEPT
                    !.held = @ \cup {<<row, Current(r).mode>>}, !.waits = {}, !.step = next,
                    !.left = IF left = {} THEN RowsAt(req[r].job, next) ELSE left])
    /\ UNCHANGED process

Wait(r) ==
    /\ Running(r) /\ req[r].waits = {}
    /\ \E row \in NextRows(r) :
          Blockers(r, row) # {} /\ Becomes(r, [req[r] EXCEPT !.waits = {row}])
    /\ UNCHANGED process

(* 40001: rolled back and tried again on another connection, MaxTries times.  *)
Retry(r) ==
    /\ Running(r)
    /\ \E row \in NextRows(r) : Blockers(r, row) = {} /\ Serialized(r, row)
    /\ Becomes(r, IF req[r].tries < MaxTries
                  THEN [Released(r, "begin") EXCEPT !.tries = @ + 1] ELSE Released(r, "reply"))
    /\ UNCHANGED process

(* A statement finds no row to change, or fails: fn returns an error.         *)
Refuse(r) ==
    /\ In(r, "run") /\ req[r].waits = {}
    /\ Becomes(r, Released(r, "reply"))
    /\ UNCHANGED process

WaitsFor(r, s) == Running(r) /\ \E row \in req[r].waits : s \in Blockers(r, row)

Waiting == {r \in Requests : Active(r) /\ req[r].waits # {}}
Awaited(S) == {s \in Waiting : \E r \in S : WaitsFor(r, s)}

(* s is in each set that has whom r, and whom its own members, wait for.      *)
Reaches(r, s) == \A S \in SUBSET Waiting : Awaited({r} \cup S) \subseteq S => s \in S

Deadlocked == {r \in Waiting : Reaches(r, r)}

(* 40P01: PostgreSQL picks one; updateInTxWithIsolation does not retry it.    *)
Victim(r) ==
    /\ Running(r) /\ req[r].waits # {} /\ r \in Deadlocked
    /\ Becomes(r, Released(r, "reply"))
    /\ UNCHANGED process

(* The mail goes out in the open transaction, without regard to the deadline. *)
Send(r) ==
    /\ Executed(r) /\ Mails(req[r].job)
    /\ Becomes(r, [req[r] EXCEPT !.pc = "mail"])
    /\ UNCHANGED process

ToCome(s) ==
    UNION {RowsAt(req[s].job, i) : i \in req[s].step .. Len(Program(req[s].job))}

(* The first statement takes the snapshot, before it comes to its first row.  *)
HasSnapshot(s) == Active(s) /\ req[s].held \cup req[s].waits # {}
AtFirstStatement(s) == In(s, "run") /\ ~HasSnapshot(s)

(* Committed rows are new to the snapshots the others have.                   *)
Committed(r) ==
    LET changed == {lock[1] : lock \in {l \in req[r].held : l[2] = "update"}}
    IN \E early \in SUBSET {s \in Requests : AtFirstStatement(s)} :
          req' = [s \in Requests |->
              CASE s = r -> Released(r, "reply")
                [] s # r /\ (HasSnapshot(s) \/ s \in early) ->
                       [req[s] EXCEPT !.stale = @ \cup (changed \cap ToCome(s))]
                [] OTHER -> req[s]]

Commit(r) ==
    /\ Executed(r) /\ ~Mails(req[r].job)
    /\ Committed(r)
    /\ UNCHANGED process

(* Answered in time; not accepted, or past the deadline; past WriteTimeout as *)
(* well, so that the answer can no longer be written.                         *)
MailAnswered(r) ==
    /\ In(r, "mail")
    /\ \/ Committed(r)
       \/ Becomes(r, Released(r, "reply"))
       \/ Becomes(r, [pc |-> "lost"])
    /\ UNCHANGED process

(* Mutant: statements do not get the context of the request.                  *)
TimeOut_BeginOnly(r) ==
    /\ In(r, "begin")
    /\ Becomes(r, Released(r, "reply"))
    /\ UNCHANGED process

(* The deadline of ContextTimeout passes: whatever waits for a connection, a  *)
(* lock or a reply of the database fails.                                     *)
TimeOut(r) ==
    /\ req[r].pc \in {"begin", "run"}
    /\ Becomes(r, Released(r, "reply"))
    /\ UNCHANGED process

PoolClosed(r) ==
    /\ In(r, "begin") /\ ~PoolOpen
    /\ Becomes(r, Released(r, "reply"))
    /\ UNCHANGED process

Reply(r) ==
    /\ In(r, "reply")
    /\ Becomes(r, [pc |-> "answered"])
    /\ UNCHANGED process

-----------------------------------------------------------------------------
Main == Connect \/ Migrate \/ Apply \/ Serve \/ Shutdown \/ CloseRedis \/ ClosePool \/ Exit
Database(r) == BeginTx(r) \/ LockRow(r) \/ Wait(r) \/ Retry(r) \/ Refuse(r) \/ Victim(r)
Step(r) == Database(r) \/ Send(r) \/ Commit(r) \/ TimeOut(r) \/ PoolClosed(r) \/ Reply(r)

Next ==
    \/ Start \/ Signal \/ Kill \/ Main
    \/ \E r \in Requests : Accept(r) \/ Step(r) \/ MailAnswered(r)

Spec == Init /\ [][Next]_vars

(* main, the handlers and PostgreSQL keep working and the clock passes every  *)
(* deadline; nobody has to send a signal, and the mail server may be silent.  *)
FairSpec ==
    /\ Spec
    /\ WF_vars(Main)
    /\ \A r \in Requests : WF_vars(Step(r))

-----------------------------------------------------------------------------
Phases == {"down", "connecting", "migrating", "applying", "listening", "serving",
           "stopping", "redis_closed", "pool_closing", "exited", "failed"}

(* Type invariant: no more connections are out than the pool has, and a       *)
(* request holds locks only while it holds a connection.                      *)
TypeOK ==
    /\ phase \in Phases /\ signalled \in BOOLEAN
    /\ schema \in [version : 0 .. LastVersion, dirty : BOOLEAN]
    /\ Cardinality({r \in Requests : HoldsConnection(r)}) <= PoolSize
    /\ \A r \in Requests : Active(r) =>
          /\ req[r].job \in Jobs[r] /\ req[r].tries \in 1 .. MaxTries
          /\ req[r].held # {} => HoldsConnection(r)

(* Account changes never deadlock with one another: all of them lock user     *)
(* rows before token rows and super_admins in the order LockActiveSuperAdmins *)
(* gives. Only a rotation, which takes its token first, or the revocation of  *)
(* a family, which takes tokens as it finds them, can close a cycle.          *)
AccountChangesNeverDeadlock ==
    \A r \in Deadlocked :
        \E s \in Deadlocked :
            /\ Reaches(r, s) /\ Reaches(s, r)
            /\ req[s].job.op \in {"rotate", "revoke_family"}

(* Requests are only served on a schema that was migrated to the end, except  *)
(* in the moments between a signal that stopped the migrations and Shutdown.  *)
ServesWholeSchema ==
    phase = "serving" => ~schema.dirty /\ (schema.version = LastVersion \/ signalled)

(* The exit that follows a signal cuts no transaction off: main's deferred    *)
(* pool.Close waits for each, whatever the request is waiting for.            *)
ExitCutsNoTransaction ==
    [][phase' = "exited" /\ phase # "exited" =>
          \A r \in Requests : Active(r) => req[r].held = {}]_vars

(* A request ends even when another holds its locks or all connections are    *)
(* out at a mail server that never answers, unless it is the one at the mail  *)
(* server: serialization failures are bounded, deadlocks broken, waits ended  *)
(* by the deadline.                                                           *)
RequestsEnd ==
    \A r \in Requests : Active(r) ~> (~Active(r) \/ In(r, "mail"))

(* A signal ends the process, unless a mail server keeps a request, and with  *)
(* it pool.Close, waiting.                                                    *)
SignalEndsProcess ==
    signalled ~> (phase \in {"exited", "failed"} \/ \E r \in Requests : In(r, "mail"))

(* Violated: svc.go calls the shutdown graceful, but Run returns as soon as   *)
(* Shutdown has closed the listener, and main exits without waiting for the   *)
(* requests that were accepted until then.                                    *)
GracefulShutdown ==
    [][phase' = "exited" /\ phase # "exited" => \A r \in Requests : ~Active(r)]_vars
=============================================================================
