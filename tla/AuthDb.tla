------------------------------- MODULE AuthDb -------------------------------
(***************************************************************************)
(* The PostgreSQL tables that the handlers of the auth service share       *)
(* (users, refresh_tokens, password_reset_tokens), the statements the      *)
(* repositories run on them, and the transaction protocol of               *)
(* backend/common/db.go: REPEATABLE READ with a bounded retry on           *)
(* serialization failure.                                                  *)
(*                                                                         *)
(* A request is a goroutine.  Its local state is the record req[p]; it     *)
(* acts on the tables one database call at a time, so that the calls of    *)
(* several requests interleave.  An autocommit statement that names one    *)
(* row is one step.  A REPEATABLE READ transaction is two steps:           *)
(*   - BeginTx takes the snapshot: it evaluates the conditions of the      *)
(*     transaction on the tables and remembers in `rows' every row its     *)
(*     statements update or lock;                                          *)
(*   - the commit step applies all the updates at once, unless a row in    *)
(*     `rows' was updated by a commit after the snapshot (first updater    *)
(*     wins, SQLSTATE 40001), in which case the attempt is rolled back.    *)
(* A row inserted after the snapshot is in no `rows': the transaction      *)
(* neither sees it nor conflicts with it.                                  *)
(***************************************************************************)
EXTENDS Naturals, FiniteSets

CONSTANTS
    Users,          \* user_uuid
    Admins,         \* users that hold an administrator role
    SuperAdmins,    \* users that hold the role super_admin
    Tokens,         \* token_id of refresh tokens (bound: one per insertion)
    Families,       \* family_id of refresh tokens (bound: one per login)
    Resets,         \* token_uuid of password reset tokens
    Passwords,      \* passwords; equality stands for a bcrypt match
    Requests,       \* request goroutines (bound: how many run at once)
    MaxTries,       \* attempts of one transaction (10 in db.go)
    Calls,          \* operations that clients call in this instance
    Nil             \* an SQL NULL or an unset local variable

\* Roles are never changed by the code; super_admin is an administrator role.
\* The handlers of Calls are those of SessionHandlers and AccountHandlers.
ASSUME RolesAssumption ==
    /\ SuperAdmins \subseteq Admins
    /\ Admins \subseteq Users

\* The revocation_reason codes (VAR-10) that the handlers write.
Reasons == {"token_reuse_detected", "account_deleted", "account_disabled",
            "password_changed"}

ASSUME NilAssumption == Nil \notin Tokens \cup Users \cup Reasons

ASSUME MaxTriesAssumption == MaxTries \in Nat \ {0}

VARIABLES
    users,      \* table users: [Users -> UserRow]
    tokens,     \* table refresh_tokens: a function from the existing token ids
    resets,     \* table password_reset_tokens: [Resets -> ResetRow]
    expired,    \* refresh tokens whose expires_at has passed
    req,        \* [Requests -> Request]
    opened      \* history: the password that opened the session of each token

dbVars == <<users, tokens, resets, expired, req, opened>>

-----------------------------------------------------------------------------
(* Rows.                                                                   *)

Statuses == {"mail_unverified", "inactive", "disabled"}

UserRow == [status : Statuses, password : Passwords, deleted : BOOLEAN]

TokenRow == [user : Users, family : Families, parent : Tokens \cup {Nil},
             used : BOOLEAN, revoked : BOOLEAN, reason : Reasons \cup {Nil}]

ResetRow == [user : Users, used : BOOLEAN]

\* Transactions between their snapshot and their commit.
TxPCs == {"rotate_commit", "change_commit", "confirm_commit", "disable_commit"}

PCs == TxPCs \cup
       {"idle", "login_save", "revoke_one", "family_begin", "family_update",
        "refresh_user", "rotate_begin", "change_begin", "confirm_begin",
        "disable_begin", "reactivate_update"}

Request == [pc : PCs, user : Users \cup {Nil}, token : Tokens \cup {Nil},
            reset : Resets \cup {Nil}, password : Passwords \cup {Nil},
            reason : {"account_deleted", "account_disabled", Nil},
            rows : SUBSET (Users \cup Tokens \cup Resets),
            conflict : BOOLEAN, tries : 0 .. MaxTries]

Idle == [pc |-> "idle", user |-> Nil, token |-> Nil, reset |-> Nil,
         password |-> Nil, reason |-> Nil, rows |-> {}, conflict |-> FALSE,
         tries |-> 0]

Stored == DOMAIN tokens

TokensOf(u) == {t \in Stored : tokens[t].user = u}

FamilyOf(t) == {s \in Stored : tokens[s].family = tokens[t].family}

Unrevoked(S) == {t \in S : ~tokens[t].revoked}

\* A token that a refresh would still rotate, as far as its own row goes.
Live(t) == t \in Stored /\ ~tokens[t].used /\ ~tokens[t].revoked

\* LockActiveSuperAdmins and CountActiveSuperAdmins: working administrators.
ActiveSuperAdmins ==
    {u \in SuperAdmins : users[u].status = "inactive" /\ ~users[u].deleted}

-----------------------------------------------------------------------------
(* Statements.                                                             *)

RevokeTokens_Overwrite(S, reason) ==
    tokens' = [t \in Stored |->
                 IF t \in S
                 THEN [tokens[t] EXCEPT !.revoked = TRUE, !.reason = reason]
                 ELSE tokens[t]]

\* The three UPDATEs that revoke refresh tokens differ in the rows they name
\* (one token, one family, one user) and share their effect: revoked_at and
\* revocation_reason are set where revoked_at IS NULL.
RevokeTokens(S, reason) ==
    tokens' = [t \in Stored |->
                 IF t \in Unrevoked(S)
                 THEN [tokens[t] EXCEPT !.revoked = TRUE, !.reason = reason]
                 ELSE tokens[t]]

\* MarkRefreshTokenUsed on a row whose used_at IS NULL: the token is consumed.
MarkedUsed(t) == [tokens EXCEPT ![t].used = TRUE]

\* InsertRefreshToken: the row of a new token.
NewToken(u, f, parent) ==
    [user |-> u, family |-> f, parent |-> parent, used |-> FALSE,
     revoked |-> FALSE, reason |-> Nil]

\* A table with one more row.
Inserted(table, id, row) ==
    [s \in DOMAIN table \cup {id} |-> IF s = id THEN row ELSE table[s]]

-----------------------------------------------------------------------------
(* Requests and transactions.                                              *)

\* A client's call reaches its handler; the local variables it sets are in r.
Start(p, call, r) ==
    /\ call \in Calls
    /\ req[p] = Idle
    /\ req' = [req EXCEPT ![p] = r]

Goto(p, pc) == req' = [req EXCEPT ![p].pc = pc]

\* A commit of request p, its last call, that updated the rows W: every open
\* transaction that updates or locks one of these rows will fail.
Committed(p, W) ==
    req' = [q \in Requests |->
              IF q = p THEN Idle
              ELSE IF req[q].pc \in TxPCs /\ req[q].rows \cap W # {}
              THEN [req[q] EXCEPT !.conflict = TRUE]
              ELSE req[q]]

\* updateInTx up to its commit: the snapshot of a new attempt.
BeginTx(p, pc, rows) ==
    req' = [req EXCEPT ![p] = [req[p] EXCEPT !.pc = pc, !.rows = rows,
                                 !.conflict = FALSE, !.tries = req[p].tries + 1]]

SerializationFailure_Unbounded(p, pc, beginPC) ==
    /\ req[p].pc = pc
    /\ req[p].conflict
    /\ req' = [req EXCEPT ![p] = [@ EXCEPT !.pc = beginPC, !.rows = {},
                                           !.conflict = FALSE, !.tries = 0]]
    /\ UNCHANGED <<users, tokens, resets, expired, opened>>

SerializationFailure_OffByOne(p, pc, beginPC) ==
    /\ req[p].pc = pc
    /\ req[p].conflict
    /\ req' = [req EXCEPT ![p] =
                 IF req[p].tries <= MaxTries
                 THEN [@ EXCEPT !.pc = beginPC, !.rows = {}, !.conflict = FALSE]
                 ELSE Idle]
    /\ UNCHANGED <<users, tokens, resets, expired, opened>>

\* updateInTxWithIsolation: "could not serialize access" is retried from a
\* new snapshot, MaxTries attempts in all; then the handler answers 500.
SerializationFailure(p, pc, beginPC) ==
    /\ req[p].pc = pc
    /\ req[p].conflict
    /\ req' = [req EXCEPT ![p] =
                 IF req[p].tries < MaxTries
                 THEN [@ EXCEPT !.pc = beginPC, !.rows = {}, !.conflict = FALSE]
                 ELSE Idle]
    /\ UNCHANGED <<users, tokens, resets, expired, opened>>

\* The transaction's own conditions failed in its snapshot: rollback, and the
\* handler returns.
Rollback(p) == req' = [req EXCEPT ![p] = Idle]

\* A database error, the ten second request timeout or the death of the
\* process: the handler stops between two of its calls and the open
\* transaction, if any, is rolled back.
Abort(p) ==
    /\ req[p] # Idle
    /\ req' = [req EXCEPT ![p] = Idle]
    /\ UNCHANGED <<users, tokens, resets, expired, opened>>

\* Time passes the expires_at of a token; no row changes.
Expire(t) ==
    /\ t \in Stored \ expired
    /\ expired' = expired \cup {t}
    /\ UNCHANGED <<users, tokens, resets, req, opened>>

\* deleted_at is set by no handler, and every query filters on it: an operator
\* may delete a user who is not an administrator.
DeleteAccount(u) ==
    /\ "delete" \in Calls
    /\ u \in Users \ Admins
    /\ ~users[u].deleted
    /\ users' = [users EXCEPT ![u].deleted = TRUE]
    /\ req' = [q \in Requests |->
                 IF req[q].pc \in TxPCs /\ u \in req[q].rows
                 THEN [req[q] EXCEPT !.conflict = TRUE] ELSE req[q]]
    /\ UNCHANGED <<tokens, resets, expired, opened>>

\* The service starts with its accounts in any status they can have, at least
\* one of them a working super_admin (the first one is set up by hand), one
\* unused password reset token for each row of Resets, and no session.
Init ==
    /\ users \in [Users -> [status : Statuses, password : Passwords,
                            deleted : {FALSE}]]
    /\ \A u \in Users : IF u \in Admins THEN users[u].status # "mail_unverified"
                                        ELSE users[u].status # "disabled"
    /\ ActiveSuperAdmins # {}
    /\ resets \in [Resets -> [user : Users, used : {FALSE}]]
    /\ \A r \in Resets : users[resets[r].user].status = "inactive"
    /\ tokens = [t \in {} |-> Nil]
    /\ opened = [t \in {} |-> Nil]
    /\ expired = {}
    /\ req = [p \in Requests |-> Idle]
=============================================================================
