-------------------------- MODULE SessionHandlers --------------------------
(***************************************************************************)
(* The handlers that open, renew and close sessions: Login (UC-005),       *)
(* RefreshToken (UC-006) and Logout (UC-007) of backend/auth/app/command,  *)
(* with the repository methods they call.                                  *)
(*                                                                         *)
(* A request that is rejected before it writes anything (malformed input,  *)
(* unknown token, wrong password, status not loginable) leaves the tables  *)
(* as they are and is a stuttering step here.  The lockout counter that    *)
(* Login keeps in Redis is the module Lockout.                             *)
(***************************************************************************)
EXTENDS AuthDb

-----------------------------------------------------------------------------
(* Login.                                                                  *)

\* GetLoginUser, VerifyPassword and CheckLoginableStatus: the account is
\* read once, without a lock, and the outcome is acted on later.
LoginCheck(p, u, pw) ==
    /\ ~users[u].deleted
    /\ users[u].password = pw
    /\ users[u].status = "inactive"
    /\ Start(p, "login", [Idle EXCEPT !.pc = "login_save", !.user = u,
                                      !.password = pw])
    /\ UNCHANGED <<users, tokens, resets, expired, opened>>

\* SaveRefreshToken: an autocommit INSERT that starts a family of its own.
LoginSave(p) ==
    /\ req[p].pc = "login_save"
    /\ \E t \in Tokens \ Stored, f \in Families :
         /\ \A s \in Stored : tokens[s].family # f
         /\ tokens' = Inserted(tokens, t, NewToken(req[p].user, f, Nil))
         /\ opened' = Inserted(opened, t, req[p].password)
         /\ Committed(p, {})
    /\ UNCHANGED <<users, resets, expired>>

-----------------------------------------------------------------------------
(* Refresh.                                                                *)

RefreshLookup_ExpiryIsReuse(p, t) ==
    /\ t \in Stored
    /\ Start(p, "refresh",
             [Idle EXCEPT !.token = t,
                !.pc = IF t \in expired \/ tokens[t].used \/ tokens[t].revoked
                       THEN "family_begin" ELSE "refresh_user"])
    /\ UNCHANGED <<users, tokens, resets, expired, opened>>

\* GetRefreshTokenByHash and the checks on the row it read: an expired token
\* is revoked alone, a used or revoked one takes its family with it.
RefreshLookup(p, t) ==
    /\ t \in Stored
    /\ Start(p, "refresh",
             [Idle EXCEPT !.token = t,
                !.pc = IF t \in expired THEN "revoke_one"
                       ELSE IF tokens[t].used \/ tokens[t].revoked
                       THEN "family_begin" ELSE "refresh_user"])
    /\ UNCHANGED <<users, tokens, resets, expired, opened>>

\* RevokeRefreshToken: one row by its id.  Also the last call of Logout.
RevokeOne(p) ==
    /\ req[p].pc = "revoke_one"
    /\ RevokeTokens({req[p].token}, req[p].reason)
    /\ Committed(p, Unrevoked({req[p].token}))
    /\ UNCHANGED <<users, resets, expired, opened>>

\* RevokeRefreshTokenFamily is one UPDATE under READ COMMITTED, but not one
\* step: it updates the rows its snapshot saw, and while it waits for the lock
\* of one of them another transaction may insert a row into the family.
FamilyBegin(p) ==
    /\ req[p].pc = "family_begin"
    /\ req' = [req EXCEPT ![p] = [@ EXCEPT !.pc = "family_update",
                                           !.rows = Unrevoked(FamilyOf(req[p].token))]]
    /\ UNCHANGED <<users, tokens, resets, expired, opened>>

FamilyUpdate(p) ==
    /\ req[p].pc = "family_update"
    /\ RevokeTokens(req[p].rows \cap Stored, "token_reuse_detected")
    /\ Committed(p, Unrevoked(req[p].rows \cap Stored))
    /\ UNCHANGED <<users, resets, expired, opened>>

\* GetUserForRefresh: a deleted or disabled owner has this token revoked.
RefreshUser(p) ==
    LET owner == users[tokens[req[p].token].user] IN
    /\ req[p].pc = "refresh_user"
    /\ req' = [req EXCEPT ![p] =
                 IF owner.deleted
                 THEN [@ EXCEPT !.pc = "revoke_one", !.reason = "account_deleted"]
                 ELSE IF owner.status = "disabled"
                 THEN [@ EXCEPT !.pc = "revoke_one", !.reason = "account_disabled"]
                 ELSE [@ EXCEPT !.pc = "rotate_begin"]]
    /\ UNCHANGED <<users, tokens, resets, expired, opened>>

RotateBegin_Unconditional(p) ==
    /\ req[p].pc = "rotate_begin"
    /\ BeginTx(p, "rotate_commit", {req[p].token})
    /\ UNCHANGED <<users, tokens, resets, expired, opened>>

\* RotateRefreshToken, snapshot: MarkRefreshTokenUsed finds the row unless
\* used_at is set, which counts as reuse.  revoked_at is not looked at again.
RotateBegin(p) ==
    /\ req[p].pc = "rotate_begin"
    /\ IF tokens[req[p].token].used
       THEN Goto(p, "family_begin")
       ELSE BeginTx(p, "rotate_commit", {req[p].token})
    /\ UNCHANGED <<users, tokens, resets, expired, opened>>

RotateCommit_NoParent(p) ==
    LET old == req[p].token IN
    /\ req[p].pc = "rotate_commit"
    /\ ~req[p].conflict
    /\ \E t \in Tokens \ Stored :
         /\ tokens' = Inserted(tokens, t,
                               NewToken(tokens[old].user, tokens[old].family, old))
         /\ opened' = Inserted(opened, t, opened[old])
    /\ Committed(p, {old})
    /\ UNCHANGED <<users, resets, expired>>

\* RotateRefreshToken, commit: the old token is used and its successor is
\* inserted into the same family.
RotateCommit(p) ==
    LET old == req[p].token IN
    /\ req[p].pc = "rotate_commit"
    /\ ~req[p].conflict
    /\ \E t \in Tokens \ Stored :
         /\ tokens' = Inserted(MarkedUsed(old), t,
                               NewToken(tokens[old].user, tokens[old].family, old))
         /\ opened' = Inserted(opened, t, opened[old])
    /\ Committed(p, {old})
    /\ UNCHANGED <<users, resets, expired>>

RotateRetry(p) == SerializationFailure(p, "rotate_commit", "rotate_begin")

-----------------------------------------------------------------------------
(* Logout.                                                                 *)

\* GetRefreshTokenByHash and the ownership check against the subject u of the
\* access token; a stranger's token is left alone.  Used, revoked and expired
\* tokens go on to the idempotent revocation and raise no reuse alarm.
LogoutLookup(p, t, u) ==
    /\ t \in Stored
    /\ tokens[t].user = u
    /\ Start(p, "logout", [Idle EXCEPT !.pc = "revoke_one", !.token = t])
    /\ UNCHANGED <<users, tokens, resets, expired, opened>>

-----------------------------------------------------------------------------
\* A client's call, and the next database call of a running request.
SessionCall(p) ==
    \/ \E u \in Users, pw \in Passwords : LoginCheck(p, u, pw)
    \/ \E t \in Tokens : RefreshLookup(p, t)
    \/ \E t \in Tokens, u \in Users : LogoutLookup(p, t, u)

SessionStep(p) ==
    \/ LoginSave(p)
    \/ RevokeOne(p)
    \/ FamilyBegin(p)
    \/ FamilyUpdate(p)
    \/ RefreshUser(p)
    \/ RotateBegin(p)
    \/ RotateCommit(p)
    \/ RotateRetry(p)
=============================================================================
