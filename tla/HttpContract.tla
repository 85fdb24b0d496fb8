---------------------------- MODULE HttpContract ----------------------------
(* The HTTP surface of the auth service as data: what the generated client    *)
(* sends and can read (client.gen.go), what the generated server registers    *)
(* and declares (openapi.gen.go), which checks a command makes and in which   *)
(* order (app/command), and the answer a handler gives to each outcome        *)
(* (handler.go). HttpService runs requests through these tables.              *)
EXTENDS Naturals, Sequences

Range1(s) == {s[i] : i \in DOMAIN s}

(* Two tables as one; as @@ of TLC, in a form a proof can expand.              *)
Joined(f, g) ==
    [x \in DOMAIN f \cup DOMAIN g |-> IF x \in DOMAIN f THEN f[x] ELSE g[x]]

(* A field of a JSON body is named by its words: <<"refresh", "token">> is    *)
(* refresh_token.                                                             *)
Email == <<"email">>
Password == <<"password">>
Token == <<"token">>
RefreshTokenField == <<"refresh", "token">>
AccessTokenField == <<"access", "token">>
NewPassword == <<"new", "password">>
CurrentPassword == <<"current", "password">>

(* Fields whose value must never reach a log: credentials and addresses.      *)
Confidential == {Email, Password, Token, RefreshTokenField, AccessTokenField,
                 NewPassword, CurrentPassword}

-----------------------------------------------------------------------------
(* The generated client: method, path and body fields of each operation.      *)

Call(method, path, fields) ==
    [method |-> method, path |-> path, fields |-> fields]

AdminCalls ==
    [DisableAdminAccount |-> Call("POST", "/admin/accounts/:userId/disable", {}),
     ReactivateAdminAccount |-> Call("POST", "/admin/accounts/:userId/reactivate", {}),
     InviteAdmin |-> Call("POST", "/admin/invitations", {Email, <<"role">>})]

EntryCalls ==
    [VerifyEmail |-> Call("POST", "/auth/email-verify", {Token}),
     ResendEmailVerification |-> Call("POST", "/auth/email-verify/resend", {Email}),
     AcceptInvitation |-> Call("POST", "/auth/invitation/accept", {Token, Password})]

SessionCalls ==
    [Login |-> Call("POST", "/auth/login", {Email, Password}),
     Logout |-> Call("POST", "/auth/logout", {RefreshTokenField}),
     ChangePassword |-> Call("PUT", "/auth/password", {CurrentPassword, NewPassword})]

ResetCalls ==
    [RequestPasswordReset |-> Call("POST", "/auth/password-reset", {Email}),
     ConfirmPasswordReset |-> Call("POST", "/auth/password-reset/confirm", {Token, NewPassword}),
     RegisterAccount |-> Call("POST", "/auth/register", {Email, Password}),
     RefreshToken |-> Call("POST", "/auth/token/refresh", {RefreshTokenField})]

ClientCalls == Joined(Joined(AdminCalls, EntryCalls), Joined(SessionCalls, ResetCalls))

(* Statuses for which the client's Parse function decodes a body.             *)
AdminParsed ==
    [DisableAdminAccount |-> {200, 400, 401, 403, 404, 409, 500},
     ReactivateAdminAccount |-> {400, 401, 403, 404, 409, 500}]

EntryParsed ==
    [InviteAdmin |-> {400, 401, 403, 409, 429, 503},
     VerifyEmail |-> {400, 429},
     ResendEmailVerification |-> {429, 503}]

SessionParsed ==
    [AcceptInvitation |-> {400, 409, 500},
     Login |-> {200, 400, 401, 403, 429},
     Logout |-> {400, 401}]

PasswordParsed ==
    [ChangePassword |-> {200, 400, 401, 403, 500},
     RequestPasswordReset |-> {400, 429, 503}]

ResetParsed ==
    [ConfirmPasswordReset |-> {400, 500},
     RegisterAccount |-> {400, 429, 503},
     RefreshToken |-> {200, 401}]

Parsed ==
    Joined(Joined(AdminParsed, EntryParsed),
           Joined(SessionParsed, Joined(PasswordParsed, ResetParsed)))

-----------------------------------------------------------------------------
(* The generated server: routes, operations under bearerAuth, and the         *)
(* responses the contract declares, as [status -> fields of the body].        *)

ServerRoutes ==
    [DisableAdminAccount |-> <<"POST", "/admin/accounts/:userId/disable">>,
     ReactivateAdminAccount |-> <<"POST", "/admin/accounts/:userId/reactivate">>,
     InviteAdmin |-> <<"POST", "/admin/invitations">>,
     VerifyEmail |-> <<"POST", "/auth/email-verify">>,
     ResendEmailVerification |-> <<"POST", "/auth/email-verify/resend">>,
     AcceptInvitation |-> <<"POST", "/auth/invitation/accept">>,
     Login |-> <<"POST", "/auth/login">>,
     Logout |-> <<"POST", "/auth/logout">>,
     ChangePassword |-> <<"PUT", "/auth/password">>,
     RequestPasswordReset |-> <<"POST", "/auth/password-reset">>,
     ConfirmPasswordReset |-> <<"POST", "/auth/password-reset/confirm">>,
     RegisterAccount |-> <<"POST", "/auth/register">>,
     RefreshToken |-> <<"POST", "/auth/token/refresh">>]

Operations == DOMAIN ServerRoutes

(* Operations whose generated wrapper sets the bearerAuth scopes.             *)
Secured == {"DisableAdminAccount", "ReactivateAdminAccount", "InviteAdmin",
            "Logout", "ChangePassword"}

Declares(success, body, problems) ==
    [success |-> success, body |-> body, problems |-> problems]

ActivationDeclared ==
    [DisableAdminAccount |-> Declares(200, {<<"revocation", "reason">>}, {400, 401, 403, 404, 409, 500}),
     ReactivateAdminAccount |-> Declares(200, {}, {400, 401, 403, 404, 409, 500})]

EntryDeclared ==
    [InviteAdmin |-> Declares(200, {}, {400, 401, 403, 409, 429, 503}),
     VerifyEmail |-> Declares(200, {}, {400, 429})]

AcceptDeclared ==
    [ResendEmailVerification |-> Declares(200, {}, {429, 503}),
     AcceptInvitation |-> Declares(200, {}, {400, 409, 500})]

SessionDeclared ==
    [Login |-> Declares(200, {AccessTokenField, RefreshTokenField}, {400, 401, 403, 429}),
     Logout |-> Declares(200, {}, {400, 401})]

PasswordDeclared ==
    [ChangePassword |-> Declares(200, {<<"revocation", "reason">>}, {400, 401, 403, 500}),
     RequestPasswordReset |-> Declares(200, {}, {400, 429, 503})]

ResetDeclared ==
    [ConfirmPasswordReset |-> Declares(200, {}, {400, 500}),
     RegisterAccount |-> Declares(201, {}, {400, 429, 503}),
     RefreshToken |-> Declares(200, {AccessTokenField, RefreshTokenField}, {401})]

Declared ==
    Joined(Joined(ActivationDeclared, Joined(EntryDeclared, AcceptDeclared)),
           Joined(SessionDeclared, Joined(PasswordDeclared, ResetDeclared)))

-----------------------------------------------------------------------------
(* handler.go: middlewares by path, and the problem of each failed outcome.   *)

Jwt == "jwt"
SuperAdminOnly == "super_admin"

SessionPaths == {"/auth/logout", "/auth/password"}
AdminPaths == {"/admin/invitations", "/admin/accounts/:userId/disable",
               "/admin/accounts/:userId/reactivate"}

Protected ==
    [path \in SessionPaths \cup AdminPaths |->
        IF path \in AdminPaths THEN <<Jwt, SuperAdminOnly>> ELSE <<Jwt>>]

(* protectedRouter overrides POST and PUT only.                               *)
Middlewares(op) ==
    LET method == ServerRoutes[op][1]
        path == ServerRoutes[op][2]
    IN IF method \in {"POST", "PUT"} /\ path \in DOMAIN Protected
       THEN Protected[path] ELSE <<>>

P(status, type) == [status |-> status, type |-> type]
Invalid == P(400, "validation-error")
Limited == P(429, "rate-limit-exceeded")
MailFailed == P(503, "mail-delivery-error")
SessionRevoked == P(401, "session-revoked")

RegisterAccountProblems ==
    [rate_limited |-> Limited, bad_email |-> Invalid, bad_password |-> Invalid,
     mail_failed |-> MailFailed]
VerifyEmailProblems ==
    [missing_token |-> Invalid, rate_limited |-> Limited,
     invalid_token |-> P(400, "invalid-token"), expired_token |-> P(400, "token-expired")]
ResendEmailVerificationProblems ==
    [rate_limited |-> Limited, mail_failed |-> MailFailed]
RequestPasswordResetProblems ==
    [rate_limited |-> Limited, bad_email |-> Invalid, mail_failed |-> MailFailed]
AcceptInvitationProblems ==
    [missing_token |-> Invalid, bad_password |-> Invalid,
     invalid_token |-> P(400, "invalid-token"), expired_token |-> P(400, "token-expired"),
     registered |-> P(409, "email-already-registered")]
InviteAdminProblems ==
    [rate_limited |-> Limited, bad_email |-> Invalid, bad_role |-> Invalid,
     role_assigned |-> P(409, "role-already-assigned"),
     registered |-> P(409, "email-already-registered"), mail_failed |-> MailFailed]
DisableAdminAccountProblems ==
    [not_found |-> P(404, "user-not-found"), not_admin |-> P(400, "not-admin-account"),
     already_disabled |-> P(409, "account-already-disabled"),
     last_super_admin |-> P(409, "last-super-admin")]
ReactivateAdminAccountProblems ==
    [not_found |-> P(404, "user-not-found"), not_admin |-> P(400, "not-admin-account"),
     not_disabled |-> P(409, "account-not-disabled")]
ConfirmPasswordResetProblems ==
    [missing_token |-> Invalid, bad_password |-> Invalid,
     invalid_token |-> P(400, "invalid-token"), expired_token |-> P(400, "token-expired")]
(* Mutant: a locked address answers 423, which the contract does not declare. *)
LoginProblems_Locked423 ==
    [bad_email |-> Invalid, locked |-> P(423, "account-locked"),
     unknown |-> P(401, "authentication-failed"), mismatch |-> P(401, "authentication-failed"),
     mail_unverified |-> P(403, "email-not-verified"), disabled |-> P(403, "account-disabled")]

LoginProblems ==
    [bad_email |-> Invalid, locked |-> P(429, "account-locked"),
     unknown |-> P(401, "authentication-failed"), mismatch |-> P(401, "authentication-failed"),
     mail_unverified |-> P(403, "email-not-verified"), disabled |-> P(403, "account-disabled")]
RefreshTokenProblems ==
    [unknown_token |-> P(401, "invalid-token"), expired_token |-> P(401, "token-expired"),
     reused |-> SessionRevoked, deleted |-> SessionRevoked, disabled |-> SessionRevoked]
LogoutProblems == [missing_token |-> Invalid]
ChangePasswordProblems ==
    [bad_password |-> Invalid, deleted |-> SessionRevoked, disabled |-> SessionRevoked,
     mismatch |-> P(403, "password-mismatch")]

Problems ==
    [RegisterAccount |-> RegisterAccountProblems, VerifyEmail |-> VerifyEmailProblems,
     ResendEmailVerification |-> ResendEmailVerificationProblems,
     RequestPasswordReset |-> RequestPasswordResetProblems,
     AcceptInvitation |-> AcceptInvitationProblems, InviteAdmin |-> InviteAdminProblems,
     DisableAdminAccount |-> DisableAdminAccountProblems,
     ReactivateAdminAccount |-> ReactivateAdminAccountProblems,
     ConfirmPasswordReset |-> ConfirmPasswordResetProblems, Login |-> LoginProblems,
     RefreshToken |-> RefreshTokenProblems, Logout |-> LogoutProblems,
     ChangePassword |-> ChangePasswordProblems]

(* Handlers that answer any other failure with 500 internal-error themselves; *)
(* the rest hand the bare error on.                                           *)
Rounding == {"AcceptInvitation", "DisableAdminAccount", "ReactivateAdminAccount",
             "ConfirmPasswordReset", "ChangePassword"}

-----------------------------------------------------------------------------
(* app/command: the checks of a command in the order they are made; the first *)
(* that fails decides the outcome. "ineligible" ends in success without doing *)
(* anything.                                                                  *)

RegisterAccountChecks == <<"rate_limited", "bad_email", "bad_password", "ineligible">>
VerifyEmailChecks == <<"missing_token", "rate_limited", "invalid_token", "expired_token">>
ResendEmailVerificationChecks == <<"rate_limited", "ineligible">>
RequestPasswordResetChecks == <<"rate_limited", "bad_email", "ineligible">>
AcceptInvitationChecks == <<"missing_token", "bad_password", "invalid_token", "expired_token", "registered">>
InviteAdminChecks == <<"rate_limited", "bad_email", "bad_role", "role_assigned", "registered">>
DisableAdminAccountChecks == <<"not_found", "not_admin", "already_disabled">>
ReactivateAdminAccountChecks == <<"not_found", "not_admin", "not_disabled">>
ConfirmPasswordResetChecks == <<"missing_token", "bad_password", "invalid_token", "expired_token">>
(* Mutant: the status of the account is looked at before the password.        *)
LoginChecks_StatusFirst == <<"bad_email", "locked", "unknown", "mail_unverified", "disabled", "mismatch">>

LoginChecks == <<"bad_email", "locked", "unknown", "mismatch", "mail_unverified", "disabled">>
RefreshTokenChecks == <<"unknown_token", "expired_token", "reused", "deleted", "disabled">>
LogoutChecks == <<"missing_token", "ineligible">>
ChangePasswordChecks == <<"bad_password", "deleted", "disabled", "mismatch">>

Checks ==
    [RegisterAccount |-> RegisterAccountChecks, VerifyEmail |-> VerifyEmailChecks,
     ResendEmailVerification |-> ResendEmailVerificationChecks,
     RequestPasswordReset |-> RequestPasswordResetChecks,
     AcceptInvitation |-> AcceptInvitationChecks, InviteAdmin |-> InviteAdminChecks,
     DisableAdminAccount |-> DisableAdminAccountChecks,
     ReactivateAdminAccount |-> ReactivateAdminAccountChecks,
     ConfirmPasswordReset |-> ConfirmPasswordResetChecks, Login |-> LoginChecks,
     RefreshToken |-> RefreshTokenChecks, Logout |-> LogoutChecks,
     ChangePassword |-> ChangePasswordChecks]

Outcome(op, failing) ==
    LET order == Checks[op]
        failed == {i \in DOMAIN order : order[i] \in failing}
    IN IF failed = {} THEN "ok"
       ELSE order[CHOOSE i \in failed : \A j \in failed : i <= j]

(* What the transaction itself may still find, after the checks passed.       *)
Conflicts ==
    [op \in Operations |->
        CASE op \in {"VerifyEmail", "ConfirmPasswordReset"} -> {"invalid_token"}
          [] op = "AcceptInvitation" -> {"invalid_token", "registered"}
          [] op = "DisableAdminAccount" -> {"already_disabled", "last_super_admin"}
          [] op = "ReactivateAdminAccount" -> {"not_disabled"}
          [] op = "RefreshToken" -> {"reused"}
          [] OTHER -> {}]

(* Commands that send a mail inside their transaction.                        *)
Mailing == {"RegisterAccount", "ResendEmailVerification", "RequestPasswordReset", "InviteAdmin"}

(* A password as its length in runes and in UTF-8 bytes.                      *)
(* Mutant: only the runes are counted.                                        *)
ValidPassword_RunesOnly(p) == p.runes >= 15 /\ p.runes <= 64

ValidPassword(p) == p.runes >= 15 /\ p.runes <= 64 /\ p.bytes <= 72
Hashable(p) == p.bytes <= 72
=============================================================================
