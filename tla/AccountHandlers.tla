-------------------------- MODULE AccountHandlers --------------------------
(***************************************************************************)
(* The handlers that change an account and end its sessions as a           *)
(* consequence: ChangePassword (UC-010), ConfirmPasswordReset (UC-009),    *)
(* DisableAccount (UC-014) and ReactivateAccount (UC-015) of               *)
(* backend/auth/app/command, with the repository methods they call.        *)
(*                                                                         *)
(* As in SessionHandlers, a rejection that precedes every write is a       *)
(* stuttering step.                                                        *)
(***************************************************************************)
EXTENDS AuthDb

\* RevokeRefreshTokensByUser in a transaction whose snapshot saw the rows W.
RevokeSessions(W, reason) == RevokeTokens(W \cap Stored, reason)

-----------------------------------------------------------------------------
(* ChangePassword.                                                         *)

\* GetUserCredentials and the comparison with the current password, outside
\* the transaction that follows.
ChangeCheck(p, u, current, new) ==
    /\ ~users[u].deleted
    /\ users[u].status # "disabled"
    /\ users[u].password = current
    /\ Start(p, "change", [Idle EXCEPT !.pc = "change_begin", !.user = u,
                                       !.password = new])
    /\ UNCHANGED <<users, tokens, resets, expired, opened>>

\* Snapshot: UpdateUserPassword finds the user unless it was deleted.
ChangeBegin(p) ==
    LET u == req[p].user IN
    /\ req[p].pc = "change_begin"
    /\ IF users[u].deleted
       THEN Rollback(p)
       ELSE BeginTx(p, "change_commit", {u} \cup Unrevoked(TokensOf(u)))
    /\ UNCHANGED <<users, tokens, resets, expired, opened>>

ChangeCommit(p) ==
    /\ req[p].pc = "change_commit"
    /\ ~req[p].conflict
    /\ users' = [users EXCEPT ![req[p].user].password = req[p].password]
    /\ RevokeSessions(req[p].rows, "password_changed")
    /\ Committed(p, req[p].rows)
    /\ UNCHANGED <<resets, expired, opened>>

ChangeRetry(p) == SerializationFailure(p, "change_commit", "change_begin")

-----------------------------------------------------------------------------
(* ConfirmPasswordReset.                                                   *)

\* GetPasswordResetTokenByHash and its checks; that the token has not expired
\* is the client's luck.  The owner's status is not looked at.
ConfirmCheck(p, r, new) ==
    /\ ~resets[r].used
    /\ Start(p, "confirm", [Idle EXCEPT !.pc = "confirm_begin", !.reset = r,
                                        !.user = resets[r].user, !.password = new])
    /\ UNCHANGED <<users, tokens, resets, expired, opened>>

ConfirmBegin_Unconditional(p) ==
    LET u == req[p].user IN
    /\ req[p].pc = "confirm_begin"
    /\ IF users[u].deleted
       THEN Rollback(p)
       ELSE BeginTx(p, "confirm_commit",
                    {u} \cup {r \in Resets : resets[r].user = u /\ ~resets[r].used}
                        \cup Unrevoked(TokensOf(u)))
    /\ UNCHANGED <<users, tokens, resets, expired, opened>>

\* Snapshot: MarkPasswordResetTokenUsed finds no row when another request was
\* faster, UpdateUserPassword none when the user was deleted; either rolls
\* the transaction back.
ConfirmBegin(p) ==
    LET u == req[p].user IN
    /\ req[p].pc = "confirm_begin"
    /\ IF resets[req[p].reset].used \/ users[u].deleted
       THEN Rollback(p)
       ELSE BeginTx(p, "confirm_commit",
                    {u, req[p].reset} \cup
                    {r \in Resets : resets[r].user = u /\ ~resets[r].used}
                    \cup Unrevoked(TokensOf(u)))
    /\ UNCHANGED <<users, tokens, resets, expired, opened>>

\* Commit: this token is consumed, the user's other unused reset tokens are
\* invalidated, the password is set and the sessions are revoked.
ConfirmCommit(p) ==
    /\ req[p].pc = "confirm_commit"
    /\ ~req[p].conflict
    /\ resets' = [r \in Resets |->
                    IF r \in req[p].rows THEN [resets[r] EXCEPT !.used = TRUE]
                                         ELSE resets[r]]
    /\ users' = [users EXCEPT ![req[p].user].password = req[p].password]
    /\ RevokeSessions(req[p].rows, "password_changed")
    /\ Committed(p, req[p].rows)
    /\ UNCHANGED <<expired, opened>>

ConfirmRetry(p) == SerializationFailure(p, "confirm_commit", "confirm_begin")

-----------------------------------------------------------------------------
(* DisableAccount and ReactivateAccount.                                   *)

\* FindAccountForDisable and the checks on what it read.
DisableCheck(p, u) ==
    /\ u \in Admins
    /\ ~users[u].deleted
    /\ users[u].status # "disabled"
    /\ Start(p, "disable", [Idle EXCEPT !.pc = "disable_begin", !.user = u])
    /\ UNCHANGED <<users, tokens, resets, expired, opened>>

DisableBegin_NoLock(p) ==
    LET u == req[p].user IN
    /\ req[p].pc = "disable_begin"
    /\ IF \/ u \in SuperAdmins /\ Cardinality(ActiveSuperAdmins) <= 1
          \/ users[u].status # "inactive" \/ users[u].deleted
       THEN Rollback(p)
       ELSE BeginTx(p, "disable_commit", {u} \cup Unrevoked(TokensOf(u)))
    /\ UNCHANGED <<users, tokens, resets, expired, opened>>

\* Snapshot: for a super_admin, LockActiveSuperAdmins locks every working
\* super_admin and the last one is refused (ErrLastSuperAdmin); then
\* TransitionUserStatus finds the row only if it is inactive
\* (ErrAlreadyDisabled).
DisableBegin(p) ==
    LET u == req[p].user
        locked == IF u \in SuperAdmins THEN ActiveSuperAdmins ELSE {} IN
    /\ req[p].pc = "disable_begin"
    /\ IF \/ u \in SuperAdmins /\ Cardinality(locked) <= 1
          \/ users[u].status # "inactive" \/ users[u].deleted
       THEN Rollback(p)
       ELSE BeginTx(p, "disable_commit", {u} \cup locked \cup Unrevoked(TokensOf(u)))
    /\ UNCHANGED <<users, tokens, resets, expired, opened>>

\* Commit: the rows that were only locked stay as they are.
DisableCommit(p) ==
    LET u == req[p].user IN
    /\ req[p].pc = "disable_commit"
    /\ ~req[p].conflict
    /\ users' = [users EXCEPT ![u].status = "disabled"]
    /\ RevokeSessions(req[p].rows, "account_disabled")
    /\ Committed(p, {u} \cup (req[p].rows \cap Stored))
    /\ UNCHANGED <<resets, expired, opened>>

DisableRetry(p) == SerializationFailure(p, "disable_commit", "disable_begin")

\* FindAccountForReactivate and the checks on what it read.
ReactivateCheck(p, u) ==
    /\ u \in Admins
    /\ ~users[u].deleted
    /\ users[u].status = "disabled"
    /\ Start(p, "reactivate", [Idle EXCEPT !.pc = "reactivate_update", !.user = u])
    /\ UNCHANGED <<users, tokens, resets, expired, opened>>

\* TransitionUserStatus as one autocommit UPDATE, guarded by the old status;
\* when a concurrent reactivation was faster it updates no row.
ReactivateUpdate(p) ==
    LET u == req[p].user
        found == users[u].status = "disabled" /\ ~users[u].deleted IN
    /\ req[p].pc = "reactivate_update"
    /\ users' = IF found THEN [users EXCEPT ![u].status = "inactive"] ELSE users
    /\ Committed(p, IF found THEN {u} ELSE {})
    /\ UNCHANGED <<tokens, resets, expired, opened>>

-----------------------------------------------------------------------------
\* A client's call, and the next database call of a running request.
AccountCall(p) ==
    \/ \E u \in Users, current, new \in Passwords : ChangeCheck(p, u, current, new)
    \/ \E r \in Resets, new \in Passwords : ConfirmCheck(p, r, new)
    \/ \E u \in Users : DisableCheck(p, u)
    \/ \E u \in Users : ReactivateCheck(p, u)

AccountStep(p) ==
    \/ ChangeBegin(p)
    \/ ChangeCommit(p)
    \/ ChangeRetry(p)
    \/ ConfirmBegin(p)
    \/ ConfirmCommit(p)
    \/ ConfirmRetry(p)
    \/ DisableBegin(p)
    \/ DisableCommit(p)
    \/ DisableRetry(p)
    \/ ReactivateUpdate(p)
=============================================================================
