------------------------- MODULE HttpServiceProofs --------------------------
(* For every number of connections and accounts, every choice of calls and    *)
(* every lifetime and timeout: how long a disabled account is let in, that a  *)
(* refusal refuses, where the log may differ from the answer, what an answer  *)
(* lets a stranger know and what the client can read of it.                   *)
EXTENDS HttpService, TLAPS

-----------------------------------------------------------------------------
(* The tables.                                                                *)

(* The client's method and path belong to one operation of the server.        *)
LEMMA Served == \A op \in Operations : ServedAs(op) \in Operations
<1>1. \A op \in Operations :
        ServerRoutes[op] = <<ClientCalls[op].method, ClientCalls[op].path>>
  BY DEF Operations, ServerRoutes, ClientCalls, Joined, AdminCalls, EntryCalls,
         SessionCalls, ResetCalls, Call
<1> QED BY <1>1 DEF ServedAs

(* Every operation under bearerAuth sits behind JWTAuth.                      *)
LEMMA SecuredIsChecked == \A op \in Secured : Jwt \in Range1(Middlewares(op))
BY DEF Secured, Middlewares, ServerRoutes, Protected, SessionPaths, AdminPaths, Range1, Jwt

(* Every admin operation sits behind RequireRoles.                            *)
LEMMA AdminIsChecked ==
    \A op \in Activation \cup {"InviteAdmin"} : SuperAdminOnly \in Range1(Middlewares(op))
BY DEF Activation, Middlewares, ServerRoutes, Protected, SessionPaths, AdminPaths,
       Range1, SuperAdminOnly

(* Checks come in a row; none is called "ok" or "hash_failed".                *)
LEMMA ChecksAreRows ==
    \A op \in Operations :
        /\ DOMAIN Checks[op] \subseteq 1 .. 6
        /\ \A i \in DOMAIN Checks[op] : Checks[op][i] \notin {"ok", "hash_failed"}
<1>1. \A op \in Operations : DOMAIN Checks[op] \in {1 .. 2, 1 .. 3, 1 .. 4, 1 .. 5, 1 .. 6, 1 .. 1}
  BY DEF Operations, ServerRoutes, Checks, RegisterAccountChecks, VerifyEmailChecks,
         ResendEmailVerificationChecks, RequestPasswordResetChecks, AcceptInvitationChecks,
         InviteAdminChecks, DisableAdminAccountChecks, ReactivateAdminAccountChecks,
         ConfirmPasswordResetChecks, LoginChecks, RefreshTokenChecks, LogoutChecks,
         ChangePasswordChecks
<1>2. \A op \in Operations : \A i \in DOMAIN Checks[op] :
        Checks[op][i] \notin {"ok", "hash_failed"}
  BY DEF Operations, ServerRoutes, Checks, RegisterAccountChecks, VerifyEmailChecks,
         ResendEmailVerificationChecks, RequestPasswordResetChecks, AcceptInvitationChecks,
         InviteAdminChecks, DisableAdminAccountChecks, ReactivateAdminAccountChecks,
         ConfirmPasswordResetChecks, LoginChecks, RefreshTokenChecks, LogoutChecks,
         ChangePasswordChecks
<1> QED BY <1>1, <1>2

(* The first check that fails decides the outcome.                            *)
LEMMA FirstFails ==
    ASSUME NEW op \in Operations, NEW failing, NEW i \in DOMAIN Checks[op],
           Checks[op][i] \in failing,
           \A j \in DOMAIN Checks[op] : j < i => Checks[op][j] \notin failing
    PROVE  Outcome(op, failing) = Checks[op][i]
<1> DEFINE order == Checks[op]
           failed == {k \in DOMAIN order : order[k] \in failing}
           first == CHOOSE k \in failed : \A j \in failed : k <= j
<1>1. failed \subseteq 1 .. 6 /\ i \in failed
  BY ChecksAreRows
<1>2. \A j \in failed : i <= j
  BY <1>1
<1>3. first \in failed /\ \A j \in failed : first <= j
  BY <1>1, <1>2
<1>4. first = i
  BY <1>1, <1>2, <1>3
<1>5. Outcome(op, failing) = order[first]
  BY <1>1 DEF Outcome
<1> QED BY <1>4, <1>5

(* The outcome is "ok" if no check fails, and that of a check otherwise.      *)
LEMMA OutcomeOf ==
    ASSUME NEW op \in Operations, NEW failing
    PROVE  \/ Outcome(op, failing) = "ok" /\ \A k \in DOMAIN Checks[op] : Checks[op][k] \notin failing
           \/ \E i \in DOMAIN Checks[op] :
                 /\ Checks[op][i] \in failing
                 /\ \A j \in DOMAIN Checks[op] : j < i => Checks[op][j] \notin failing
                 /\ Outcome(op, failing) = Checks[op][i]
<1> DEFINE order == Checks[op]
           failed == {k \in DOMAIN order : order[k] \in failing}
<1>1. failed \subseteq 1 .. 6
  BY ChecksAreRows
<1>2. CASE failed = {}
  BY <1>2 DEF Outcome
<1>3. CASE failed # {}
  <2>1. PICK i \in failed : \A j \in failed : i <= j
    <3> HIDE DEF failed
    <3>1. \A i \in failed : i \in Nat /\ i \in {1, 2, 3, 4, 5, 6}
      BY <1>1
    <3>2. CASE failed \cap {1, 2, 3} # {}
      BY <3>1, <3>2
    <3>3. CASE failed \cap {1, 2, 3} = {}
      BY <1>3, <3>1, <3>3
    <3> QED BY <3>2, <3>3
  <2>2. i \in DOMAIN order /\ order[i] \in failing
    BY <2>1
  <2>3. \A j \in DOMAIN order : j < i => order[j] \notin failing
    BY <1>1, <2>1
  <2>4. Outcome(op, failing) = order[i]
    BY <2>2, <2>3, FirstFails
  <2> QED BY <2>2, <2>3, <2>4
<1> QED BY <1>2, <1>3

(* A check of the command, or "ok" if none of those that fail is one.         *)
LEMMA OutcomeOK ==
    ASSUME NEW op \in Operations, NEW failing
    PROVE  /\ Outcome(op, failing) \in {"ok"} \cup Range1(Checks[op])
           /\ Outcome(op, failing) = "ok" => Range1(Checks[op]) \cap failing = {}
BY OutcomeOf, ChecksAreRows DEF Range1

(* Login and RefreshToken check the status, whoever sets a password checks it.*)
LEMMA ChecksOf ==
    /\ \A op \in Issuing : "disabled" \in Range1(Checks[op])
    /\ \A op \in SetsPassword : "bad_password" \in Range1(Checks[op])
<1>1. ASSUME NEW op \in Issuing PROVE \E i \in DOMAIN Checks[op] : Checks[op][i] = "disabled"
  <2>1. CASE op = "Login"
    <3>1. Checks[op] = <<"bad_email", "locked", "unknown", "mismatch", "mail_unverified", "disabled">>
      BY <2>1 DEF Checks, LoginChecks
    <3>2. 6 \in DOMAIN Checks[op] /\ Checks[op][6] = "disabled"
      BY <3>1
    <3> QED BY <3>2
  <2>2. CASE op = "RefreshToken"
    <3>1. Checks[op] = <<"unknown_token", "expired_token", "reused", "deleted", "disabled">>
      BY <2>2 DEF Checks, RefreshTokenChecks
    <3>2. 5 \in DOMAIN Checks[op] /\ Checks[op][5] = "disabled"
      BY <3>1
    <3> QED BY <3>2
  <2> QED BY <2>1, <2>2 DEF Issuing
<1>2. ASSUME NEW op \in SetsPassword
      PROVE  \E i \in DOMAIN Checks[op] : Checks[op][i] = "bad_password"
  <2>1. CASE op = "RegisterAccount"
    <3>1. Checks[op] = <<"rate_limited", "bad_email", "bad_password", "ineligible">>
      BY <2>1 DEF Checks, RegisterAccountChecks
    <3>2. 3 \in DOMAIN Checks[op] /\ Checks[op][3] = "bad_password"
      BY <3>1
    <3> QED BY <3>2
  <2>2. CASE op = "ChangePassword"
    <3>1. Checks[op] = <<"bad_password", "deleted", "disabled", "mismatch">>
      BY <2>2 DEF Checks, ChangePasswordChecks
    <3>2. 1 \in DOMAIN Checks[op] /\ Checks[op][1] = "bad_password"
      BY <3>1
    <3> QED BY <3>2
  <2>3. CASE op \in {"ConfirmPasswordReset", "AcceptInvitation"}
    <3>1. 2 \in DOMAIN Checks[op] /\ Checks[op][2] = "bad_password"
      BY <2>3 DEF Checks, ConfirmPasswordResetChecks, AcceptInvitationChecks
    <3> QED BY <3>1
  <2> QED BY <2>1, <2>2, <2>3 DEF SetsPassword
<1> QED BY <1>1, <1>2 DEF Range1

(* What an operation may come to: a refusal by its own chain of middlewares,  *)
(* a check of its own, a conflict, a mail that it sends, or one of the        *)
(* failures any request may meet; hashing is not among them.                  *)
ResultsOf(op) ==
    {"ok", "bad_json", "bad_media", "failed", "deadline", "panic"}
    \cup Range1(Checks[op]) \cup Conflicts[op]
    \cup {result \in {"unauthorized"} : Jwt \in Range1(Middlewares(op))}
    \cup {result \in {"forbidden"} : SuperAdminOnly \in Range1(Middlewares(op))}
    \cup {result \in {"mail_failed"} : op \in Mailing}

(* No check and no conflict is about hashing.                                 *)
LEMMA ResultsAreNoHashes ==
    \A op \in Operations : ResultsOf(op) \subseteq Results \ {"hash_failed"}
<1>1. \A op \in Operations : "hash_failed" \notin Range1(Checks[op]) \cup Conflicts[op]
  BY ChecksAreRows DEF Conflicts, Range1
<1>2. \A op \in Operations : Range1(Checks[op]) \cup Conflicts[op] \subseteq Results
  BY DEF Results
<1> QED BY <1>1, <1>2 DEF ResultsOf, Results

(* Whoever takes a body checks a field that an unbound body leaves empty.     *)
LEMMA UnfilledFails ==
    \A op \in Operations : Fields(op) # {} =>
        \E i \in DOMAIN Checks[op] :
            \/ Checks[op][i] \in {"missing_token", "unknown_token", "bad_email", "bad_password"}
            \/ op = "ResendEmailVerification" /\ Checks[op][i] = "ineligible"
<1> DEFINE Fails(op, i) ==
        /\ i \in DOMAIN Checks[op]
        /\ \/ Checks[op][i] \in {"missing_token", "unknown_token", "bad_email", "bad_password"}
           \/ op = "ResendEmailVerification" /\ Checks[op][i] = "ineligible"
<1>1. \A op \in {"VerifyEmail", "AcceptInvitation", "ConfirmPasswordReset", "Logout",
                 "Login", "RefreshToken", "ChangePassword"} : Fails(op, 1)
  BY DEF Checks, VerifyEmailChecks, AcceptInvitationChecks, ConfirmPasswordResetChecks,
         LogoutChecks, LoginChecks, RefreshTokenChecks, ChangePasswordChecks
<1>2. \A op \in {"RegisterAccount", "RequestPasswordReset", "InviteAdmin",
                 "ResendEmailVerification"} : Fails(op, 2)
  BY DEF Checks, RegisterAccountChecks, RequestPasswordResetChecks, InviteAdminChecks,
         ResendEmailVerificationChecks
<1>3. \A op \in {"DisableAdminAccount", "ReactivateAdminAccount"} : Fields(op) = {}
  BY DEF Fields, ClientCalls, Joined, AdminCalls, EntryCalls, SessionCalls, ResetCalls, Call
<1> QED BY <1>1, <1>2, <1>3 DEF Operations, ServerRoutes

(* Credentials and addresses are named by words IsSensitive looks for.        *)
LEMMA ConfidentialIsSensitive == \A f \in Confidential : IsSensitive(f)
<1>1. \A f \in Confidential : \E i \in DOMAIN f : f[i] \in SensitiveParts
  <2>1. \A f \in {<<"email">>, <<"password">>, <<"token">>} : f[1] \in SensitiveParts /\ 1 \in DOMAIN f
    BY DEF SensitiveParts
  <2>2. \A f \in {<<"refresh", "token">>, <<"access", "token">>, <<"new", "password">>,
                  <<"current", "password">>} : f[2] \in SensitiveParts /\ 2 \in DOMAIN f
    BY DEF SensitiveParts
  <2> QED BY <2>1, <2>2 DEF Confidential, Email, Password, Token, RefreshTokenField,
             AccessTokenField, NewPassword, CurrentPassword
<1> QED BY <1>1 DEF IsSensitive, Range1

(* No problem of a handler is about a failure inside the server.              *)
LEMMA InternalHasNoProblem ==
    \A op \in Operations, result \in {"ok", "failed", "deadline", "panic"} :
        result \notin DOMAIN Problems[op]
BY DEF Operations, ServerRoutes, Problems, RegisterAccountProblems, VerifyEmailProblems,
       ResendEmailVerificationProblems, RequestPasswordResetProblems,
       AcceptInvitationProblems, InviteAdminProblems, DisableAdminAccountProblems,
       ReactivateAdminAccountProblems, ConfirmPasswordResetProblems, LoginProblems,
       RefreshTokenProblems, LogoutProblems, ChangePasswordProblems

-----------------------------------------------------------------------------
(* The answers.                                                               *)

(* What the client parses, operation by operation.                            *)
LEMMA ParsedOf ==
    /\ Parsed["RegisterAccount"] = {400, 429, 503}
    /\ Parsed["VerifyEmail"] = {400, 429}
    /\ Parsed["ResendEmailVerification"] = {429, 503}
    /\ Parsed["RequestPasswordReset"] = {400, 429, 503}
    /\ Parsed["AcceptInvitation"] = {400, 409, 500}
    /\ Parsed["InviteAdmin"] = {400, 401, 403, 409, 429, 503}
    /\ Parsed["DisableAdminAccount"] = {200, 400, 401, 403, 404, 409, 500}
    /\ Parsed["ReactivateAdminAccount"] = {400, 401, 403, 404, 409, 500}
    /\ Parsed["ConfirmPasswordReset"] = {400, 500}
    /\ Parsed["Login"] = {200, 400, 401, 403, 429}
    /\ Parsed["RefreshToken"] = {200, 401}
    /\ Parsed["Logout"] = {400, 401}
    /\ Parsed["ChangePassword"] = {200, 400, 401, 403, 500}
BY DEF Parsed, Joined, AdminParsed, EntryParsed, SessionParsed, PasswordParsed, ResetParsed

(* Only these operations have a body to tell of their success.                *)
LEMMA BodyOf ==
    \A op \in Operations \ {"DisableAdminAccount", "ChangePassword", "Login", "RefreshToken"} :
        Declared[op].body = {}
BY DEF Operations, ServerRoutes, Declared, Joined, Declares, ActivationDeclared, EntryDeclared,
       AcceptDeclared, SessionDeclared, PasswordDeclared, ResetDeclared

(* Where success has a body it is answered with 200.                          *)
LEMMA SuccessOf ==
    \A op \in {"DisableAdminAccount", "ChangePassword", "Login", "RefreshToken"} :
        Declared[op].success = 200
BY DEF Declared, Joined, Declares, ActivationDeclared, EntryDeclared,
       AcceptDeclared, SessionDeclared, PasswordDeclared, ResetDeclared

(* The client decodes the problem of every check and every conflict; a check  *)
(* that ends in success belongs to an operation whose success has no body.    *)
Decodable(op, result) ==
    \/ result = "ineligible" /\ Declared[op].body = {}
    \/ result \in DOMAIN Problems[op] /\ Problems[op][result].status \in Parsed[op]

(* Every check, command by command.                                           *)
LEMMA ChecksDecodable ==
    \A op \in Operations : \A i \in DOMAIN Checks[op] : Decodable(op, Checks[op][i])
<1> USE DEF Decodable, Problems, P, Invalid, Limited, MailFailed, SessionRevoked
<1>0. \A op \in {"RegisterAccount", "ResendEmailVerification", "RequestPasswordReset", "Logout"} :
        Declared[op].body = {}
  BY BodyOf DEF Operations, ServerRoutes
<1>1. \A i \in DOMAIN RegisterAccountChecks : Decodable("RegisterAccount", RegisterAccountChecks[i])
  BY <1>0, ParsedOf DEF RegisterAccountChecks, RegisterAccountProblems
<1>2. \A i \in DOMAIN VerifyEmailChecks : Decodable("VerifyEmail", VerifyEmailChecks[i])
  BY ParsedOf DEF VerifyEmailChecks, VerifyEmailProblems
<1>3. \A i \in DOMAIN ResendEmailVerificationChecks : Decodable("ResendEmailVerification", ResendEmailVerificationChecks[i])
  BY <1>0, ParsedOf DEF ResendEmailVerificationChecks, ResendEmailVerificationProblems
<1>4. \A i \in DOMAIN RequestPasswordResetChecks : Decodable("RequestPasswordReset", RequestPasswordResetChecks[i])
  BY <1>0, ParsedOf DEF RequestPasswordResetChecks, RequestPasswordResetProblems
<1>5. \A i \in DOMAIN AcceptInvitationChecks : Decodable("AcceptInvitation", AcceptInvitationChecks[i])
  BY ParsedOf DEF AcceptInvitationChecks, AcceptInvitationProblems
<1>6. \A i \in DOMAIN InviteAdminChecks : Decodable("InviteAdmin", InviteAdminChecks[i])
  BY ParsedOf DEF InviteAdminChecks, InviteAdminProblems
<1>7. \A i \in DOMAIN DisableAdminAccountChecks : Decodable("DisableAdminAccount", DisableAdminAccountChecks[i])
  BY ParsedOf DEF DisableAdminAccountChecks, DisableAdminAccountProblems
<1>8. \A i \in DOMAIN ReactivateAdminAccountChecks : Decodable("ReactivateAdminAccount", ReactivateAdminAccountChecks[i])
  BY ParsedOf DEF ReactivateAdminAccountChecks, ReactivateAdminAccountProblems
<1>9. \A i \in DOMAIN ConfirmPasswordResetChecks : Decodable("ConfirmPasswordReset", ConfirmPasswordResetChecks[i])
  BY ParsedOf DEF ConfirmPasswordResetChecks, ConfirmPasswordResetProblems
<1>10. \A i \in DOMAIN LoginChecks : Decodable("Login", LoginChecks[i])
  BY ParsedOf DEF LoginChecks, LoginProblems
<1>11. \A i \in DOMAIN RefreshTokenChecks : Decodable("RefreshToken", RefreshTokenChecks[i])
  BY ParsedOf DEF RefreshTokenChecks, RefreshTokenProblems
<1>12. \A i \in DOMAIN LogoutChecks : Decodable("Logout", LogoutChecks[i])
  BY <1>0, ParsedOf DEF LogoutChecks, LogoutProblems
<1>13. \A i \in DOMAIN ChangePasswordChecks : Decodable("ChangePassword", ChangePasswordChecks[i])
  BY ParsedOf DEF ChangePasswordChecks, ChangePasswordProblems
<1> HIDE DEF Decodable, Problems, P, Invalid, Limited, MailFailed, SessionRevoked
<1> QED
  BY <1>1, <1>2, <1>3, <1>4, <1>5, <1>6, <1>7,
     <1>8, <1>9, <1>10, <1>11, <1>12, <1>13 DEF Operations, ServerRoutes, Checks

(* Every conflict that a transaction may find.                                *)
LEMMA ConflictsDecodable ==
    \A op \in Operations : \A result \in Conflicts[op] : Decodable(op, result)
<1>1. \A op \in Operations \ {"VerifyEmail", "ConfirmPasswordReset", "AcceptInvitation",
                             "DisableAdminAccount", "ReactivateAdminAccount", "RefreshToken"} :
        Conflicts[op] = {}
  BY DEF Conflicts
<1>2. \A op \in {"VerifyEmail", "ConfirmPasswordReset", "AcceptInvitation",
                "DisableAdminAccount", "ReactivateAdminAccount", "RefreshToken"} :
        Conflicts[op] = CASE op \in {"VerifyEmail", "ConfirmPasswordReset"} -> {"invalid_token"}
          [] op = "AcceptInvitation" -> {"invalid_token", "registered"}
          [] op = "DisableAdminAccount" -> {"already_disabled", "last_super_admin"}
          [] op = "ReactivateAdminAccount" -> {"not_disabled"}
          [] op = "RefreshToken" -> {"reused"}
          [] OTHER -> {}
  BY DEF Conflicts, Operations, ServerRoutes
<1> QED
  BY <1>1, <1>2, ParsedOf
     DEF Decodable, Problems, VerifyEmailProblems, ConfirmPasswordResetProblems,
         AcceptInvitationProblems, DisableAdminAccountProblems, ReactivateAdminAccountProblems,
         RefreshTokenProblems, P, Invalid, Limited, SessionRevoked

(* No check or conflict has the name of a failure outside the command.        *)
LEMMA ProblemsAreOwn == \A op \in Operations : DOMAIN Problems[op] \cap Bypassing = {}
BY DEF Bypassing, Operations, ServerRoutes, Problems, RegisterAccountProblems, VerifyEmailProblems,
       ResendEmailVerificationProblems, RequestPasswordResetProblems,
       AcceptInvitationProblems, InviteAdminProblems, DisableAdminAccountProblems,
       ReactivateAdminAccountProblems, ConfirmPasswordResetProblems, LoginProblems,
       RefreshTokenProblems, LogoutProblems, ChangePasswordProblems

(* A handler answers what has a problem with that problem.                    *)
LEMMA ProblemSent ==
    ASSUME NEW op \in Operations, NEW result \in DOMAIN Problems[op], ~Succeeds(result)
    PROVE  Answer(op, result) = Problems[op][result]
<1>1. ErrorOf(op, result) = [kind |-> "problem", problem |-> Problems[op][result]]
  BY ProblemsAreOwn DEF ErrorOf, Bypassing
<1> QED BY <1>1 DEF Answer, ContextTimeout, ProblemErrorHandler

(* The check that ends in success has no problem.                             *)
LEMMA IneligibleHasNoProblem == \A op \in Operations : "ineligible" \notin DOMAIN Problems[op]
BY DEF Operations, ServerRoutes, Problems, RegisterAccountProblems, VerifyEmailProblems,
       ResendEmailVerificationProblems, RequestPasswordResetProblems,
       AcceptInvitationProblems, InviteAdminProblems, DisableAdminAccountProblems,
       ReactivateAdminAccountProblems, ConfirmPasswordResetProblems, LoginProblems,
       RefreshTokenProblems, LogoutProblems, ChangePasswordProblems

(* The gate turns away from operations whose clients read 401 and 403.        *)
LEMMA GatedOf ==
    \A op \in Operations :
        /\ Jwt \in Range1(Middlewares(op)) => 401 \in Parsed[op]
        /\ SuperAdminOnly \in Range1(Middlewares(op)) => 403 \in Parsed[op]
<1>1. \A op \in Operations \ (Activation \cup {"InviteAdmin", "Logout", "ChangePassword"}) :
        Middlewares(op) = <<>>
  BY DEF Operations, Middlewares, ServerRoutes, Protected, SessionPaths, AdminPaths, Activation
<1>2. \A op \in {"Logout", "ChangePassword"} : Middlewares(op) = <<Jwt>>
  BY DEF Middlewares, ServerRoutes, Protected, SessionPaths, AdminPaths
<1>3. \A op \in Activation \cup {"InviteAdmin", "Logout", "ChangePassword"} : 401 \in Parsed[op]
  BY ParsedOf DEF Activation
<1>4. \A op \in Activation \cup {"InviteAdmin"} : 403 \in Parsed[op]
  BY ParsedOf DEF Activation
<1>5. Range1(<<>>) = {} /\ SuperAdminOnly \notin Range1(<<Jwt>>)
  BY DEF Range1, Jwt, SuperAdminOnly
<1> QED BY <1>1, <1>2, <1>3, <1>4, <1>5

(* What the client can make of the answer to each result an operation has.    *)
LEMMA Understood ==
    ASSUME NEW op \in Operations, NEW result \in ResultsOf(op)
    PROVE  \/ Answer(op, result).status \in Parsed[op]
           \/ Succeeds(result) /\ Declared[op].body = {}
           \/ result \in {"bad_json", "bad_media", "failed", "deadline", "panic"}
<1>1. CASE result = "ok"
  <2>1. CASE op \in {"DisableAdminAccount", "ChangePassword", "Login", "RefreshToken"}
    <3>1. Answer(op, result).status = 200
      BY <1>1, <2>1, SuccessOf DEF Answer, Succeeds, P
    <3> QED BY <2>1, <3>1, ParsedOf
  <2>2. CASE op \notin {"DisableAdminAccount", "ChangePassword", "Login", "RefreshToken"}
    BY <1>1, <2>2, BodyOf DEF Succeeds
  <2> QED BY <2>1, <2>2
<1>2. CASE Decodable(op, result) /\ result # "ok"
  <2>1. CASE result = "ineligible" /\ Declared[op].body = {}
    BY <2>1 DEF Succeeds
  <2>2. CASE result # "ineligible" /\ result \in DOMAIN Problems[op]
             /\ Problems[op][result].status \in Parsed[op]
    <3>1. Answer(op, result) = Problems[op][result]
      BY <1>2, <2>2, ProblemSent DEF Succeeds
    <3> QED BY <2>2, <3>1
  <2>3. "ineligible" \notin DOMAIN Problems[op]
    BY IneligibleHasNoProblem
  <2> QED BY <1>2, <2>1, <2>2, <2>3 DEF Decodable
<1>3. CASE result = "unauthorized" /\ Jwt \in Range1(Middlewares(op))
  <2>1. Answer(op, result).status = 401
    <3>1. ErrorOf(op, result) = [kind |-> "problem", problem |-> P(401, "invalid-token")]
      BY <1>3, ProblemsAreOwn DEF ErrorOf, Bypassing
    <3> QED BY <1>3, <3>1 DEF Answer, Succeeds, ContextTimeout, ProblemErrorHandler, P
  <2> QED BY <1>3, <2>1, GatedOf, ParsedOf
<1>4. CASE result = "forbidden" /\ SuperAdminOnly \in Range1(Middlewares(op))
  <2>1. Answer(op, result).status = 403
    <3>1. ErrorOf(op, result) = [kind |-> "problem", problem |-> P(403, "forbidden")]
      BY <1>4, ProblemsAreOwn DEF ErrorOf, Bypassing
    <3> QED BY <1>4, <3>1 DEF Answer, Succeeds, ContextTimeout, ProblemErrorHandler, P
  <2> QED BY <1>4, <2>1, GatedOf, ParsedOf
<1>5. CASE result = "mail_failed" /\ op \in Mailing
  <2>1. result \in DOMAIN Problems[op] /\ Problems[op][result] = P(503, "mail-delivery-error")
    BY <1>5 DEF Mailing, Problems, RegisterAccountProblems, ResendEmailVerificationProblems,
                RequestPasswordResetProblems, InviteAdminProblems, MailFailed
  <2>2. Answer(op, result).status = 503
    BY <1>5, <2>1, ProblemSent DEF Succeeds, P
  <2> QED BY <1>5, <2>2, ParsedOf DEF Mailing
<1>6. \A check \in Range1(Checks[op]) \cup Conflicts[op] : Decodable(op, check)
  BY ChecksDecodable, ConflictsDecodable DEF Range1
<1> QED BY <1>1, <1>2, <1>3, <1>4, <1>5, <1>6 DEF ResultsOf

(* Where "ineligible" is a check it is the last one, and its answer is that   *)
(* of a success: nobody sees whether it failed.                               *)
LEMMA IneligibleUnseen ==
    ASSUME NEW op \in {"RegisterAccount", "ResendEmailVerification", "RequestPasswordReset"},
           NEW failing
    PROVE  Answer(op, Outcome(op, failing)) = Answer(op, Outcome(op, failing \ {"ineligible"}))
<1> DEFINE others == failing \ {"ineligible"}
<1>1. op \in Operations
  BY DEF Operations, ServerRoutes
<1>2. \A i, j \in DOMAIN Checks[op] : Checks[op][i] = "ineligible" /\ Checks[op][j] # "ineligible" => j < i
  <2>1. CASE op = "RegisterAccount"
    BY <2>1 DEF Checks, RegisterAccountChecks
  <2>2. CASE op = "ResendEmailVerification"
    BY <2>2 DEF Checks, ResendEmailVerificationChecks
  <2>3. CASE op = "RequestPasswordReset"
    BY <2>3 DEF Checks, RequestPasswordResetChecks
  <2> QED BY <2>1, <2>2, <2>3
<1>3. CASE \A k \in DOMAIN Checks[op] : Checks[op][k] \notin others
  <2>1. Outcome(op, others) = "ok"
    BY <1>1, <1>3, OutcomeOf
  <2>2. Outcome(op, failing) \in {"ok", "ineligible"}
    BY <1>1, <1>3, OutcomeOf
  <2> QED BY <2>1, <2>2 DEF Answer, Succeeds
<1>4. CASE \E k \in DOMAIN Checks[op] : Checks[op][k] \in others
  <2>1. PICK i \in DOMAIN Checks[op] :
          /\ Checks[op][i] \in others
          /\ \A j \in DOMAIN Checks[op] : j < i => Checks[op][j] \notin others
          /\ Outcome(op, others) = Checks[op][i]
    BY <1>1, <1>4, OutcomeOf
  <2>2. i \in Nat /\ \A j \in DOMAIN Checks[op] : j \in Nat
    BY <1>1, ChecksAreRows
  <2>3. \A j \in DOMAIN Checks[op] : j < i => Checks[op][j] \notin failing
    BY <1>2, <2>1, <2>2
  <2>4. Outcome(op, failing) = Checks[op][i]
    BY <1>1, <2>1, <2>3, FirstFails
  <2> QED BY <2>1, <2>4
<1> QED BY <1>3, <1>4

(* A login answers a missing account as a wrong password, and a wrong         *)
(* password whatever the status of the account.                               *)
LEMMA LoginUnseen ==
    ASSUME NEW failing
    PROVE  LET As(f) == Answer("Login", Outcome("Login", f))
           IN /\ "unknown" \in failing =>
                    As(failing) = As((failing \ {"unknown"}) \cup {"mismatch"})
              /\ "mismatch" \in failing =>
                    As(failing) = As(failing \ {"mail_unverified", "disabled"})
<1> DEFINE As(f) == Answer("Login", Outcome("Login", f))
           order == Checks["Login"]
<1>1. "Login" \in Operations
  BY DEF Operations, ServerRoutes
<1>2. /\ DOMAIN order = 1 .. 6
      /\ order[1] = "bad_email" /\ order[2] = "locked" /\ order[3] = "unknown"
      /\ order[4] = "mismatch" /\ order[5] = "mail_unverified" /\ order[6] = "disabled"
  BY DEF Checks, LoginChecks
<1> HIDE DEF order
<1>3. ASSUME NEW f, NEW i \in 1 .. 6, order[i] \in f,
             \A j \in 1 .. 6 : j < i => order[j] \notin f
      PROVE  Outcome("Login", f) = order[i]
  BY <1>1, <1>2, <1>3, FirstFails DEF order
<1>4. \A f : "bad_email" \in f => Outcome("Login", f) = "bad_email"
  BY <1>2, <1>3
<1>5. \A f : "bad_email" \notin f /\ "locked" \in f => Outcome("Login", f) = "locked"
  BY <1>2, <1>3
<1>6. \A f : f \cap {"bad_email", "locked"} = {} /\ "unknown" \in f => Outcome("Login", f) = "unknown"
  BY <1>2, <1>3
<1>7. \A f : f \cap {"bad_email", "locked", "unknown"} = {} /\ "mismatch" \in f
             => Outcome("Login", f) = "mismatch"
  BY <1>2, <1>3
<1>8. Answer("Login", "unknown") = Answer("Login", "mismatch")
  <2>1. {"unknown", "mismatch"} \subseteq DOMAIN Problems["Login"]
        /\ Problems["Login"]["unknown"] = Problems["Login"]["mismatch"]
    BY DEF Problems, LoginProblems, P
  <2> QED BY <1>1, <2>1, ProblemSent DEF Succeeds
<1>9. ASSUME "unknown" \in failing
      PROVE  As(failing) = As((failing \ {"unknown"}) \cup {"mismatch"})
  <2>1. PICK f : f = (failing \ {"unknown"}) \cup {"mismatch"}
    OBVIOUS
  <2>2. /\ "bad_email" \in f <=> "bad_email" \in failing
        /\ "locked" \in f <=> "locked" \in failing
        /\ "unknown" \notin f /\ "mismatch" \in f
    BY <2>1
  <2>3. As(failing) = As(f)
    BY <1>4, <1>5, <1>6, <1>7, <1>8, <1>9, <2>2
  <2> QED BY <2>1, <2>3
<1>10. ASSUME "mismatch" \in failing
       PROVE  As(failing) = As(failing \ {"mail_unverified", "disabled"})
  <2>1. PICK f : f = failing \ {"mail_unverified", "disabled"}
    OBVIOUS
  <2>2. \A check \in {"bad_email", "locked", "unknown", "mismatch"} : check \in f <=> check \in failing
    BY <2>1
  <2>3. Outcome("Login", failing) = Outcome("Login", f)
    BY <1>4, <1>5, <1>6, <1>7, <1>10, <2>2
  <2> QED BY <2>1, <2>3
<1> QED BY <1>9, <1>10

(* Whatever failed: what ContextTimeout makes of the error has the status the *)
(* log took from the error, except for a bare deadline.                       *)
LEMMA LoggedStatus ==
    ASSUME NEW op, NEW result, ~Succeeds(result), result # "panic"
    PROVE  \/ StatusFromError(ErrorOf(op, result)) = Answer(op, result).status
           \/ /\ result = "deadline" /\ op \notin Rounding
              /\ StatusFromError(ErrorOf(op, result)) = 500
              /\ Answer(op, result).status = 503
<1> DEFINE e == ErrorOf(op, result)
<1>1. \/ e.kind = "http" /\ e = [kind |-> "http", status |-> e.status]
      \/ e.kind = "problem"
      \/ /\ e.kind = "bare"
         /\ e.deadline = (result = "deadline") /\ op \notin Rounding
  BY DEF ErrorOf, Bypassing
<1>2. Answer(op, result) = ProblemErrorHandler(ContextTimeout(e))
  BY DEF Answer
<1>3. CASE e.kind = "http"
  BY <1>2, <1>3 DEF ContextTimeout, ProblemErrorHandler, StatusFromError, P
<1>4. CASE e.kind = "problem"
  BY <1>2, <1>4 DEF ContextTimeout, ProblemErrorHandler, StatusFromError, P
<1>5. CASE e.kind = "bare" /\ op \notin Rounding /\ e.deadline = (result = "deadline")
  <2>1. CASE result = "deadline"
    <3>1. ContextTimeout(e) = [kind |-> "http", status |-> 503]
      BY <1>5, <2>1 DEF ContextTimeout
    <3>2. Answer(op, result).status = 503
      BY <1>2, <3>1 DEF ProblemErrorHandler, StatusFromError, P
    <3>3. StatusFromError(e) = 500
      BY <1>5 DEF StatusFromError
    <3> QED BY <1>5, <2>1, <3>2, <3>3
  <2>2. CASE result # "deadline"
    <3>1. ContextTimeout(e) = e
      BY <1>5, <2>2 DEF ContextTimeout
    <3>2. Answer(op, result).status = 500
      BY <1>2, <1>5, <3>1 DEF ProblemErrorHandler, StatusFromError, P
    <3>3. StatusFromError(e) = 500
      BY <1>5 DEF StatusFromError
    <3> QED BY <3>2, <3>3
  <2> QED BY <2>1, <2>2
<1> QED BY <1>1, <1>3, <1>4, <1>5

(* The problems of the handlers have an error's status.                       *)
LEMMA ProblemStatuses ==
    \A op \in Operations : \A result \in DOMAIN Problems[op] :
        Problems[op][result].status \in 400 .. 503
<1> DEFINE Proper(t) == \A result \in DOMAIN t : t[result].status \in 400 .. 503
<1>1. \A op \in Operations : Problems[op] \in
        {RegisterAccountProblems, VerifyEmailProblems,
         ResendEmailVerificationProblems, RequestPasswordResetProblems,
         AcceptInvitationProblems, InviteAdminProblems,
         DisableAdminAccountProblems, ReactivateAdminAccountProblems,
         ConfirmPasswordResetProblems, LoginProblems,
         RefreshTokenProblems, LogoutProblems, ChangePasswordProblems}
  BY DEF Operations, ServerRoutes, Problems
<1>2. Proper(RegisterAccountProblems)
  BY DEF RegisterAccountProblems, P, Invalid, Limited, MailFailed, SessionRevoked
<1>3. Proper(VerifyEmailProblems)
  BY DEF VerifyEmailProblems, P, Invalid, Limited, MailFailed, SessionRevoked
<1>4. Proper(ResendEmailVerificationProblems)
  BY DEF ResendEmailVerificationProblems, P, Invalid, Limited, MailFailed, SessionRevoked
<1>5. Proper(RequestPasswordResetProblems)
  BY DEF RequestPasswordResetProblems, P, Invalid, Limited, MailFailed, SessionRevoked
<1>6. Proper(AcceptInvitationProblems)
  BY DEF AcceptInvitationProblems, P, Invalid, Limited, MailFailed, SessionRevoked
<1>7. Proper(InviteAdminProblems)
  BY DEF InviteAdminProblems, P, Invalid, Limited, MailFailed, SessionRevoked
<1>8. Proper(DisableAdminAccountProblems)
  BY DEF DisableAdminAccountProblems, P, Invalid, Limited, MailFailed, SessionRevoked
<1>9. Proper(ReactivateAdminAccountProblems)
  BY DEF ReactivateAdminAccountProblems, P, Invalid, Limited, MailFailed, SessionRevoked
<1>10. Proper(ConfirmPasswordResetProblems)
  BY DEF ConfirmPasswordResetProblems, P, Invalid, Limited, MailFailed, SessionRevoked
<1>11. Proper(LoginProblems)
  BY DEF LoginProblems, P, Invalid, Limited, MailFailed, SessionRevoked
<1>12. Proper(RefreshTokenProblems)
  BY DEF RefreshTokenProblems, P, Invalid, Limited, MailFailed, SessionRevoked
<1>13. Proper(LogoutProblems)
  BY DEF LogoutProblems, P, Invalid, Limited, MailFailed, SessionRevoked
<1>14. Proper(ChangePasswordProblems)
  BY DEF ChangePasswordProblems, P, Invalid, Limited, MailFailed, SessionRevoked
<1> HIDE DEF Proper
<1>15. \A op \in Operations : Proper(Problems[op])
  BY <1>1, <1>2, <1>3, <1>4, <1>5, <1>6, <1>7, <1>8, <1>9, <1>10,
     <1>11, <1>12, <1>13, <1>14
<1> QED BY <1>15 DEF Proper

(* Success is 200 or 201.                                                      *)
LEMMA SuccessStatuses == \A op \in Operations : Declared[op].success \in 200 .. 201
BY DEF Operations, ServerRoutes, Declared, Joined, Declares, ActivationDeclared, EntryDeclared,
       AcceptDeclared, SessionDeclared, PasswordDeclared, ResetDeclared

(* Whatever error a handler returns, its status is an error's.                *)
LEMMA ErrorStatuses ==
    ASSUME NEW op \in Operations, NEW result
    PROVE  StatusFromError(ErrorOf(op, result)) \in 400 .. 503
<1> DEFINE e == ErrorOf(op, result)
<1>1. \/ e.kind = "http" /\ e.status \in 400 .. 503
      \/ e.kind = "problem" /\ e.problem.status \in 400 .. 503
      \/ e.kind = "bare"
  BY ProblemStatuses DEF ErrorOf, Bypassing, P
<1> HIDE DEF e
<1>2. StatusFromError(e) \in 400 .. 503
  BY <1>1 DEF StatusFromError
<1> QED BY <1>2 DEF e

(* A failure inside the server is answered without a problem type of its own. *)
LEMMA InternalAnswer ==
    ASSUME NEW op \in Operations, NEW result \in {"ok", "failed", "deadline", "panic"}
    PROVE  Answer(op, result).type \in {"none", "internal-error", "about:blank"}
<1>1. CASE result = "ok"
  BY <1>1 DEF Answer, Succeeds, P
<1>2. CASE result # "ok"
  <2> DEFINE e == ErrorOf(op, result)
  <2>1. Answer(op, result) = ProblemErrorHandler(ContextTimeout(e))
    BY <1>2 DEF Answer, Succeeds
  <2>2. \/ e.kind = "bare"
        \/ e.kind = "problem" /\ e.problem.type = "internal-error"
    BY <1>2, InternalHasNoProblem DEF ErrorOf, Bypassing, P
  <2>3. CASE e.kind = "problem" /\ e.problem.type = "internal-error"
    BY <2>1, <2>3 DEF ContextTimeout, ProblemErrorHandler
  <2>4. CASE e.kind = "bare"
    <3>1. \/ ContextTimeout(e) = e
          \/ ContextTimeout(e) = [kind |-> "http", status |-> 503]
      BY DEF ContextTimeout
    <3> QED BY <2>1, <2>4, <3>1 DEF ProblemErrorHandler, P
  <2> QED BY <2>2, <2>3, <2>4
<1> QED BY <1>1, <1>2

-----------------------------------------------------------------------------
(* The inductive invariant.                                                   *)

(* No token outlives the clock by more than TTL, and none of a disabled       *)
(* account the disabling by more than Timeout + TTL.                          *)
TokensOK ==
    \A u \in Users :
        /\ newest[u] <= now + TTL
        /\ account[u].since <= now
        /\ account[u].disabled => newest[u] <= account[u].since + Timeout + TTL

TimesOK ==
    /\ now \in Nat
    /\ account \in [Users -> [disabled : BOOLEAN, since : Nat]]
    /\ newest \in [Users -> Nat]

(* The fields of the request hold what the body had in them.                  *)
Bound(r) == r.shape \notin Unbound \/ Fields(r.op) = {}

(* A login or refresh about to save, of an account disabled since, began      *)
(* before the disabling: it passed the check of the status.                   *)
PendingOK(r) ==
    /\ r \in Pending /\ r.at <= now
    /\ r.pc = "mail" => r.op \in Mailing
    /\ r.pc \in {"mail", "save"} => Bound(r)
    /\ (r.pc = "save" /\ r.op \in Issuing /\ account[r.user].disabled) =>
          r.at <= account[r.user].since

Tells(r) ==
    IF r.result = "panic" THEN r.logged = NoLine
    ELSE \/ r.logged.status = r.sent.status
         \/ /\ r.result = "deadline" /\ r.op \notin Rounding
            /\ r.logged.status = 500 /\ r.sent.status = 503

AnswerOK(r) ==
    /\ r.op \in Operations /\ r.result \in ResultsOf(r.op)
    /\ r.sent = Answer(r.op, r.result)
    /\ r.sent.status \in 200 .. 503 /\ r.logged.status \in {0} \cup 200 .. 503
    /\ r.logged.fields \cap Confidential = {}
    /\ r.effect => r.logged.bare \cup r.warned = {}
    /\ r.effect => r.sent.type \in {"none", "internal-error", "about:blank"}
    /\ Tells(r)

RequestOK(r) ==
    /\ r.pc \in Stages \cup {"idle", "answered"}
    /\ r.pc = "idle" => r = Idle
    /\ r.pc \in Stages => PendingOK(r)
    /\ r.pc = "answered" => AnswerOK(r)

RequestsOK == DOMAIN req = Connections /\ \A c \in Connections : RequestOK(req[c])

IInv == TimesOK /\ TokensOK /\ RequestsOK

(* At the start nobody is disabled and nothing is in flight.                  *)
LEMMA InitIInv == Init => IInv
<1> SUFFICES ASSUME Init PROVE IInv
  OBVIOUS
<1>1. TimesOK
  BY IssuedAssumption, TimesAssumption DEF Init, TimesOK
<1>2. TokensOK
  BY IssuedAssumption, TimesAssumption DEF Init, TokensOK
<1>3. RequestsOK
  BY DEF Init, RequestsOK, RequestOK, Idle, Stages
<1> QED BY <1>1, <1>2, <1>3 DEF IInv

(* A request moves alone.                                                     *)
LEMMA Alone ==
    ASSUME RequestsOK, NEW c \in Connections, UNCHANGED <<now, account>>,
           NEW r, req' = [req EXCEPT ![c] = r], RequestOK(r)'
    PROVE  RequestsOK'
<1>1. DOMAIN req' = Connections /\ req'[c] = r
  BY DEF RequestsOK
<1>2. \A d \in Connections \ {c} : RequestOK(req[d])'
  BY DEF RequestsOK, RequestOK, PendingOK, AnswerOK, Tells
<1> QED BY <1>1, <1>2 DEF RequestsOK

(* Every answer is in order; an effect comes with an answer that leaves it    *)
(* open.                                                                      *)
LEMMA Responded ==
    ASSUME NEW op \in Operations, NEW result, NEW failing, NEW effect \in BOOLEAN,
           NEW shape, result \in ResultsOf(op), NEW warned \in Warnings(op, result, shape),
           effect => result \in {"ok", "failed", "deadline", "panic"},
           effect => shape \notin Unbound \/ Fields(op) = {}
    PROVE  RequestOK([pc |-> "answered", op |-> op, result |-> result,
                      failing |-> failing, effect |-> effect, sent |-> Answer(op, result),
                      logged |-> LogLine(op, result, shape), warned |-> warned])
<1> DEFINE r == [pc |-> "answered", op |-> op, result |-> result,
                 failing |-> failing, effect |-> effect, sent |-> Answer(op, result),
                 logged |-> LogLine(op, result, shape), warned |-> warned]
<1>1. r.effect => r.sent.type \in {"none", "internal-error", "about:blank"}
  BY InternalAnswer
<1>2. Tells(r)
  <2>1. CASE result = "panic"
    BY <2>1 DEF Tells, LogLine
  <2>2. CASE result # "panic" /\ Succeeds(result)
    BY <2>2 DEF Tells, LogLine, Answer, P
  <2>3. CASE result # "panic" /\ ~Succeeds(result)
    <3>1. LogLine(op, result, shape).status = StatusFromError(ErrorOf(op, result))
      BY <2>3 DEF LogLine
    <3> HIDE DEF r
    <3>2. r.op = op /\ r.result = result /\ r.sent = Answer(op, result)
          /\ r.logged = LogLine(op, result, shape)
      BY DEF r
    <3> QED BY <2>3, <3>1, <3>2, LoggedStatus DEF Tells
  <2> QED BY <2>1, <2>2, <2>3
<1>3. r.logged.fields \cap Confidential = {}
  <2>1. \A sh, fields : Shown(sh, fields) \cap Confidential = {}
    BY ConfidentialIsSensitive DEF Shown
  <2>2. CASE result = "panic"
    BY <2>2 DEF LogLine, NoLine
  <2>3. CASE result # "panic"
    BY <2>1, <2>3 DEF LogLine
  <2> QED BY <2>2, <2>3
<1>4. r.effect => r.logged.bare \cup r.warned = {}
  <2>1. CASE effect
    <3>1. result # "rate_limited"
      BY <2>1
    <3>2. warned = {}
      BY <3>1 DEF Warnings
    <3>3. LogLine(op, result, shape).bare = {}
      BY <2>1 DEF LogLine, NoLine, ShownBare, Unbound
    <3> QED BY <3>2, <3>3
  <2> QED BY <2>1
<1>5. r.sent.status \in 200 .. 503 /\ r.logged.status \in {0} \cup 200 .. 503
  <2>1. CASE Succeeds(result)
    BY <2>1, SuccessStatuses DEF Answer, LogLine, P, NoLine
  <2>2. CASE ~Succeeds(result) /\ result = "panic"
    <3>0. "panic" \notin DOMAIN Problems[op]
      BY InternalHasNoProblem
    <3>1. ErrorOf(op, result) = [kind |-> "bare", deadline |-> FALSE]
      BY <2>2, <3>0 DEF ErrorOf, Bypassing
    <3>2. Answer(op, result).status = 500
      BY <2>2, <3>1 DEF Answer, ContextTimeout, ProblemErrorHandler, StatusFromError, P
    <3> QED BY <2>2, <3>2 DEF LogLine, NoLine
  <2>3. CASE ~Succeeds(result) /\ result # "panic"
    <3>1. LogLine(op, result, shape).status = StatusFromError(ErrorOf(op, result))
      BY <2>3 DEF LogLine
    <3>2. Answer(op, result).status \in 400 .. 503
      BY <2>3, LoggedStatus, ErrorStatuses
    <3> QED BY <3>1, <3>2, ErrorStatuses
  <2> QED BY <2>1, <2>2, <2>3
<1> QED BY <1>1, <1>2, <1>3, <1>4, <1>5 DEF RequestOK, AnswerOK, Stages

(* An answer while nothing else changes.                                      *)
LEMMA RespondOK ==
    ASSUME RequestsOK, NEW c \in Connections, req[c].op \in Operations,
           NEW result, NEW failing, NEW effect \in BOOLEAN, result \in ResultsOf(req[c].op),
           effect => result \in {"ok", "failed", "deadline", "panic"}, effect => Bound(req[c]),
           Respond(c, result, failing, effect), UNCHANGED <<now, account>>
    PROVE  RequestsOK'
<1>0. PICK warned \in Warnings(req[c].op, result, req[c].shape) :
        req' = [req EXCEPT ![c] =
            [pc |-> "answered", op |-> req[c].op, result |-> result,
             failing |-> failing, effect |-> effect, sent |-> Answer(req[c].op, result),
             logged |-> LogLine(req[c].op, result, req[c].shape), warned |-> warned]]
  BY DEF Respond
<1>1. PICK r : r = [pc |-> "answered", op |-> req[c].op, result |-> result,
                    failing |-> failing, effect |-> effect, sent |-> Answer(req[c].op, result),
                    logged |-> LogLine(req[c].op, result, req[c].shape), warned |-> warned]
  OBVIOUS
<1>2. RequestOK(r) /\ r.pc = "answered"
  BY <1>1, Responded DEF Bound
<1>3. RequestOK(r)'
  BY <1>2 DEF RequestOK, AnswerOK, Tells, Stages
<1>4. req' = [req EXCEPT ![c] = r]
  BY <1>0, <1>1
<1> QED BY <1>3, <1>4, Alone

(* A request that goes on to its next stage.                                  *)
LEMMA GoesOK ==
    ASSUME IInv, NEW c \in Connections, req[c].pc \in Stages, NEW pc \in Stages,
           Goes(c, pc), UNCHANGED <<now, account>>,
           pc = "mail" => req[c].op \in Mailing, pc \in {"mail", "save"} => Bound(req[c]),
           pc = "save" => req[c].op \notin Issuing \/ ~account[req[c].user].disabled
    PROVE  RequestsOK'
<1>1. PendingOK(req[c])
  BY DEF IInv, RequestsOK, RequestOK
<1>2. PICK r : r = [req[c] EXCEPT !.pc = pc]
  OBVIOUS
<1>3. /\ r \in Pending /\ r.pc = pc
      /\ r.op = req[c].op /\ r.user = req[c].user /\ r.at = req[c].at
      /\ r.shape = req[c].shape
  BY <1>1, <1>2 DEF PendingOK, Pending
<1>4. PendingOK(r)'
  BY <1>1, <1>3 DEF PendingOK, Bound
<1>5. RequestOK(r)'
  BY <1>3, <1>4 DEF RequestOK, Stages
<1>6. req' = [req EXCEPT ![c] = r]
  BY <1>2 DEF Goes
<1> QED BY <1>5, <1>6, Alone DEF IInv

(* What is pending has an operation of the server.                            *)
LEMMA PendingOp ==
    ASSUME IInv, NEW c \in Connections, req[c].pc \in Stages
    PROVE  /\ PendingOK(req[c]) /\ req[c].op \in Operations
           /\ req[c].user \in Users /\ req[c].target \in Users /\ req[c].at \in Nat
BY DEF IInv, RequestsOK, RequestOK, PendingOK, Pending

(* The call starts now; the answer is read.                                   *)
LEMMA SendReceiveOK ==
    ASSUME IInv, NEW c \in Connections, Send(c) \/ Receive(c)
    PROVE  RequestsOK'
<1>1. CASE Send(c)
  <2>1. PICK call \in Issues[c] :
          req' = [req EXCEPT ![c] =
                [pc |-> "gate", op |-> ServedAs(call.op), user |-> call.user,
                 target |-> call.target, at |-> now, shape |-> call.shape]]
    BY <1>1 DEF Send
  <2>2. call \in Calls
    BY CallsAssumption
  <2>3. PICK r : r = [pc |-> "gate", op |-> ServedAs(call.op), user |-> call.user,
                      target |-> call.target, at |-> now, shape |-> call.shape]
    OBVIOUS
  <2>4. r \in Pending /\ r.pc = "gate" /\ r.at = now
    BY <2>2, <2>3, Served DEF Calls, Pending, Stages, IInv, TimesOK
  <2>5. RequestOK(r)'
    BY <1>1, <2>4 DEF RequestOK, PendingOK, Send, Stages, IInv, TimesOK
  <2> QED BY <1>1, <2>1, <2>3, <2>5, Alone DEF Send, IInv
<1>2. CASE Receive(c)
  <2>1. RequestOK(Idle)'
    BY DEF RequestOK, Idle, Stages
  <2> QED BY <1>2, <2>1, Alone DEF Receive, IInv, Idle
<1> QED BY <1>1, <1>2

(* Before the command nothing is checked against the database.                *)
LEMMA GateBindOK ==
    ASSUME IInv, NEW c \in Connections, Gate(c) \/ Bind(c)
    PROVE  RequestsOK'
<1>1. req[c].pc \in Stages /\ UNCHANGED <<now, account>>
  BY DEF Gate, Bind, In, Stages
<1>2. req[c].op \in Operations
  BY <1>1, PendingOp
<1>3. CASE \E result \in ResultsOf(req[c].op) : Respond(c, result, {}, FALSE)
  BY <1>1, <1>2, <1>3, RespondOK DEF IInv
<1>4. CASE Goes(c, "bind") \/ Goes(c, "handle")
  BY <1>1, <1>4, GoesOK DEF Stages
<1>5. \/ \E result \in ResultsOf(req[c].op) : Respond(c, result, {}, FALSE)
      \/ Goes(c, "bind") \/ Goes(c, "handle")
  BY DEF Gate, Bind, ResultsOf
<1> QED BY <1>3, <1>4, <1>5

(* The command goes on for an account in order only.                          *)
LEMMA HandleOK ==
    ASSUME IInv, NEW c \in Connections, Handle(c)
    PROVE  RequestsOK'
<1>1. req[c].pc \in Stages /\ UNCHANGED <<now, account>>
  BY DEF Handle, In, Stages
<1>2. req[c].op \in Operations
  BY <1>1, PendingOp
<1>3. CASE \E result \in ResultsOf(req[c].op) : \E failing : Respond(c, result, failing, FALSE)
  BY <1>1, <1>2, <1>3, RespondOK DEF IInv
<1>4. ASSUME NEW p \in Passwords, NEW failing \in Failures(req[c]),
             Outcome(req[c].op, failing) = "ok", Consistent(req[c], failing, p),
             Goes(c, IF req[c].op \in Mailing THEN "mail" ELSE "save")
      PROVE  RequestsOK'
  <2>1. req[c].op \in Issuing => ~account[req[c].user].disabled
    BY <1>2, <1>4, OutcomeOK, ChecksOf DEF Consistent
  <2>2. Bound(req[c])
    <3>1. ASSUME req[c].shape \in Unbound, Fields(req[c].op) # {}
          PROVE  Range1(Checks[req[c].op]) \cap failing # {}
      <4>1. Range1(Checks[req[c].op]) \cap Unfilled(req[c]) \subseteq failing
        BY <1>4 DEF Failures
      <4>2. PICK i \in DOMAIN Checks[req[c].op] : Checks[req[c].op][i] \in Unfilled(req[c])
        BY <1>2, <3>1, UnfilledFails DEF Unfilled
      <4> QED BY <4>1, <4>2 DEF Range1
    <3> QED BY <1>2, <1>4, <3>1, OutcomeOK DEF Bound
  <2>3. CASE req[c].op \in Mailing
    BY <1>1, <1>4, <2>2, <2>3, GoesOK DEF Stages
  <2>4. CASE req[c].op \notin Mailing
    BY <1>1, <1>4, <2>1, <2>2, <2>4, GoesOK DEF Stages
  <2> QED BY <2>3, <2>4
<1>5. ASSUME NEW p \in Passwords, NEW failing, Outcome(req[c].op, failing) = "ok",
             Consistent(req[c], failing, p), req[c].op \in SetsPassword, ~Hashable(p)
      PROVE  FALSE
  <2>1. "bad_password" \notin failing
    BY <1>2, <1>5, OutcomeOK, ChecksOf
  <2>2. ValidPassword(p)
    BY <1>5, <2>1 DEF Consistent
  <2> QED BY <1>5, <2>2 DEF ValidPassword, Hashable
<1>6. \/ \E result \in ResultsOf(req[c].op) : \E failing : Respond(c, result, failing, FALSE)
      \/ \E p \in Passwords, failing \in Failures(req[c]) :
            /\ Outcome(req[c].op, failing) = "ok" /\ Consistent(req[c], failing, p)
            /\ Goes(c, IF req[c].op \in Mailing THEN "mail" ELSE "save")
  BY <1>2, <1>5, OutcomeOK DEF Handle, ResultsOf
<1> QED BY <1>3, <1>4, <1>6

(* Mail is sent by operations that issue no access token.                     *)
LEMMA MailOK ==
    ASSUME IInv, NEW c \in Connections, Mail(c)
    PROVE  RequestsOK'
<1>1. req[c].pc = "mail" /\ req[c].pc \in Stages /\ UNCHANGED <<now, account>>
  BY DEF Mail, In, Stages
<1>2. req[c].op \in Operations /\ req[c].op \in Mailing /\ req[c].op \notin Issuing /\ Bound(req[c])
  BY <1>1, PendingOp DEF PendingOK, Mailing, Issuing
<1>3. CASE Goes(c, "save")
  BY <1>1, <1>2, <1>3, GoesOK DEF Stages
<1>4. CASE Respond(c, "mail_failed", {}, FALSE)
  BY <1>1, <1>2, <1>4, RespondOK DEF IInv, ResultsOf
<1>5. CASE Respond(c, "panic", {}, TRUE)
  BY <1>1, <1>2, <1>5, RespondOK DEF IInv, ResultsOf
<1> QED BY <1>3, <1>4, <1>5 DEF Mail

(* A commit that disables does so now, after every pending request began; one *)
(* that reactivates makes no account disabled.                                *)
LEMMA CommitKeeps ==
    ASSUME IInv, NEW r \in Pending, Commit(r), UNCHANGED now
    PROVE  /\ account' \in [Users -> [disabled : BOOLEAN, since : Nat]]
           /\ \A u \in Users :
                 /\ account'[u].since <= now
                 /\ account'[u].disabled =>
                       \/ account[u].disabled /\ account'[u] = account[u]
                       \/ account'[u].since = now
<1>1. r.target \in Users
  BY DEF Pending
<1>2. CASE r.op = "DisableAdminAccount"
  <2>1. account' = [account EXCEPT ![r.target] = [disabled |-> TRUE, since |-> now]]
    BY <1>2 DEF Commit
  <2>2. [disabled |-> TRUE, since |-> now] \in [disabled : BOOLEAN, since : Nat]
    BY DEF IInv, TimesOK
  <2>3. account'[r.target] = [disabled |-> TRUE, since |-> now]
    BY <1>1, <2>1 DEF IInv, TimesOK
  <2>4. \A u \in Users \ {r.target} : account'[u] = account[u]
    BY <2>1 DEF IInv, TimesOK
  <2>5. account' \in [Users -> [disabled : BOOLEAN, since : Nat]]
    BY <2>1, <2>2 DEF IInv, TimesOK
  <2>6. account'[r.target].since <= now
        /\ (account'[r.target].disabled => account'[r.target].since = now)
    BY <2>3 DEF IInv, TimesOK
  <2> QED BY <2>4, <2>5, <2>6 DEF IInv, TokensOK
<1>3. CASE r.op = "ReactivateAdminAccount"
  <2>1. account' = [account EXCEPT ![r.target] = [disabled |-> FALSE, since |-> 0]]
    BY <1>3 DEF Commit
  <2>2. [disabled |-> FALSE, since |-> 0] \in [disabled : BOOLEAN, since : Nat]
    BY DEF IInv, TimesOK
  <2>3. account'[r.target] = [disabled |-> FALSE, since |-> 0]
    BY <1>1, <2>1 DEF IInv, TimesOK
  <2>4. \A u \in Users \ {r.target} : account'[u] = account[u]
    BY <2>1 DEF IInv, TimesOK
  <2>5. account' \in [Users -> [disabled : BOOLEAN, since : Nat]]
    BY <2>1, <2>2 DEF IInv, TimesOK
  <2>6. account'[r.target].since <= now
        /\ (account'[r.target].disabled => account'[r.target].since = now)
    BY <2>3 DEF IInv, TimesOK
  <2> QED BY <2>4, <2>5, <2>6 DEF IInv, TokensOK
<1>4. CASE r.op \notin {"DisableAdminAccount", "ReactivateAdminAccount"}
  BY <1>4 DEF Commit, IInv, TimesOK, TokensOK
<1> QED BY <1>2, <1>3, <1>4

(* Whoever is answered at a commit leaves the others in order.                *)
LEMMA CommittedOK ==
    ASSUME IInv, NEW c \in Connections, req[c].pc = "save", Commit(req[c]), UNCHANGED now,
           NEW result \in {"ok", "failed", "deadline", "panic"}, Respond(c, result, {}, TRUE)
    PROVE  RequestsOK'
<1>1. req[c] \in Pending /\ req[c].op \in Operations /\ Bound(req[c])
  BY PendingOp DEF PendingOK, Stages
<1>0. PICK warned \in Warnings(req[c].op, result, req[c].shape) :
        req' = [req EXCEPT ![c] =
            [pc |-> "answered", op |-> req[c].op, result |-> result,
             failing |-> {}, effect |-> TRUE, sent |-> Answer(req[c].op, result),
             logged |-> LogLine(req[c].op, result, req[c].shape), warned |-> warned]]
  BY DEF Respond
<1>2. PICK r : r = [pc |-> "answered", op |-> req[c].op, result |-> result,
                    failing |-> {}, effect |-> TRUE, sent |-> Answer(req[c].op, result),
                    logged |-> LogLine(req[c].op, result, req[c].shape), warned |-> warned]
  OBVIOUS
<1>3. RequestOK(r) /\ r.pc = "answered"
  <2>1. result \in ResultsOf(req[c].op)
    BY DEF ResultsOf
  <2> QED BY <1>1, <1>2, <2>1, Responded DEF Bound
<1>4. RequestOK(r)'
  BY <1>3 DEF RequestOK, AnswerOK, Tells, Stages
<1>5. req' = [req EXCEPT ![c] = r]
  BY <1>0, <1>2
<1>6. DOMAIN req' = Connections /\ req'[c] = r
  BY <1>5 DEF IInv, RequestsOK
<1>7. ASSUME NEW d \in Connections \ {c} PROVE RequestOK(req[d])'
  <2>1. req'[d] = req[d] /\ RequestOK(req[d])
    BY <1>5, <1>7 DEF IInv, RequestsOK
  <2>2. ASSUME req[d].pc \in Stages PROVE PendingOK(req[d])'
    <3>1. PendingOK(req[d]) /\ req[d].user \in Users /\ req[d].at \in Nat
      BY <2>2, PendingOp
    <3>2. (/\ req[d].pc = "save" /\ req[d].op \in Issuing
           /\ account'[req[d].user].disabled) => req[d].at <= account'[req[d].user].since
      BY <1>1, <3>1, CommitKeeps DEF PendingOK
    <3> QED BY <2>1, <3>1, <3>2 DEF PendingOK
  <2>3. AnswerOK(req[d])' = AnswerOK(req[d])
    BY <2>1 DEF AnswerOK, Tells
  <2> QED BY <2>1, <2>2, <2>3 DEF RequestOK
<1> QED BY <1>4, <1>6, <1>7 DEF RequestsOK

(* A token issued in time to an account disabled since its status was read    *)
(* ends a lifetime after the deadline of the request at the latest.           *)
LEMMA SaveOK ==
    ASSUME IInv, NEW c \in Connections, Save(c)
    PROVE  IInv'
<1> DEFINE r == req[c]
<1>1. r.pc = "save" /\ r.pc \in Stages /\ UNCHANGED now
  BY DEF Save, In, Stages
<1>2. /\ PendingOK(r) /\ r \in Pending /\ r.op \in Operations
      /\ r.user \in Users /\ r.at \in Nat
  BY <1>1, PendingOp DEF PendingOK
<1>3. ASSUME InTime(c), Commit(r), Respond(c, "ok", {}, TRUE),
             newest' = IF r.op \in Issuing
                       THEN [newest EXCEPT ![r.user] = Later(@, now + TTL)] ELSE newest
      PROVE  IInv'
  <2>1. RequestsOK'
    BY <1>1, <1>3, CommittedOK
  <2>2. newest' \in [Users -> Nat]
    BY <1>2, <1>3, TimesAssumption DEF Later, IInv, TimesOK
  <2>3. CASE r.op \in Issuing
    <3>1. account' = account
      BY <1>3, <2>3 DEF Commit, Issuing
    <3>2. ASSUME account[r.user].disabled
          PROVE  now + TTL <= account[r.user].since + Timeout + TTL
      <4>1. r.at <= account[r.user].since
        BY <1>1, <1>2, <2>3, <3>2 DEF PendingOK
      <4>2. now <= r.at + Timeout
        BY <1>3 DEF InTime
      <4>3. now \in Nat /\ account[r.user].since \in Nat
        BY <1>2 DEF IInv, TimesOK
      <4> QED BY <1>2, <4>1, <4>2, <4>3, TimesAssumption
    <3>3. \A u \in Users :
            \/ newest'[u] = newest[u]
            \/ u = r.user /\ newest'[u] = now + TTL
      BY <1>2, <1>3, <2>3 DEF Later, IInv, TimesOK
    <3>4. TokensOK'
      BY <1>1, <3>1, <3>2, <3>3, TimesAssumption DEF TokensOK, IInv, TimesOK
    <3> QED BY <1>1, <2>1, <2>2, <3>1, <3>4 DEF IInv, TimesOK
  <2>4. CASE r.op \notin Issuing
    <3>1. newest' = newest
      BY <1>3, <2>4
    <3>2. TokensOK' /\ TimesOK'
      BY <1>1, <1>2, <1>3, <3>1, CommitKeeps, TimesAssumption DEF TokensOK, IInv, TimesOK
    <3> QED BY <2>1, <3>2 DEF IInv
  <2> QED BY <2>3, <2>4
<1>4. ASSUME NEW result \in {"failed", "deadline", "panic"}, Commit(r),
             Respond(c, result, {}, TRUE), UNCHANGED newest
      PROVE  IInv'
  <2>1. RequestsOK'
    BY <1>1, <1>4, CommittedOK
  <2>2. TokensOK' /\ TimesOK'
    BY <1>1, <1>2, <1>4, CommitKeeps, TimesAssumption DEF TokensOK, IInv, TimesOK
  <2> QED BY <2>1, <2>2 DEF IInv
<1>5. ASSUME NEW result \in ResultsOf(r.op), Respond(c, result, {}, FALSE),
             UNCHANGED <<account, newest>>
      PROVE  IInv'
  <2>1. RequestsOK'
    BY <1>1, <1>2, <1>5, RespondOK DEF IInv
  <2>2. TokensOK' /\ TimesOK'
    BY <1>1, <1>5 DEF TokensOK, IInv, TimesOK
  <2> QED BY <2>1, <2>2 DEF IInv
<1> QED BY <1>2, <1>3, <1>4, <1>5, <1>1 DEF Save, ResultsOf

(* Time only loosens the bounds.                                              *)
LEMMA TickOK == ASSUME IInv, Tick PROVE IInv'
<1>1. TimesOK' /\ TokensOK'
  BY TimesAssumption DEF Tick, IInv, TimesOK, TokensOK
<1>2. ASSUME NEW d \in Connections PROVE RequestOK(req[d])'
  <2>1. CASE req[d].pc \in Stages
    <3>1. PendingOK(req[d]) /\ req[d].at \in Nat
      BY <2>1, PendingOp
    <3> QED BY <2>1, <3>1 DEF Tick, RequestOK, PendingOK, Stages, IInv, TimesOK
  <2>2. CASE req[d].pc \notin Stages
    BY <2>2 DEF Tick, IInv, RequestsOK, RequestOK, AnswerOK, Tells
  <2> QED BY <2>1, <2>2
<1> QED BY <1>1, <1>2 DEF Tick, IInv, RequestsOK

(* Every step keeps the invariant.                                            *)
LEMMA NextIInv == IInv /\ [Next]_vars => IInv'
<1> SUFFICES ASSUME IInv, [Next]_vars PROVE IInv'
  OBVIOUS
<1>1. ASSUME NEW c \in Connections,
             Send(c) \/ Gate(c) \/ Bind(c) \/ Handle(c) \/ Mail(c) \/ Receive(c)
      PROVE  IInv'
  <2>1. RequestsOK'
    BY <1>1, SendReceiveOK, GateBindOK, HandleOK, MailOK
  <2>2. UNCHANGED <<now, account, newest>>
    BY <1>1 DEF Send, Gate, Bind, Handle, Mail, Receive
  <2> QED BY <2>1, <2>2 DEF IInv, TimesOK, TokensOK
<1>2. CASE UNCHANGED vars
  BY <1>2 DEF vars, IInv, TimesOK, TokensOK, RequestsOK, RequestOK, PendingOK, AnswerOK, Tells
<1> QED BY <1>1, <1>2, SaveOK, TickOK DEF Next

(* The inductive invariant holds in every reachable state.                    *)
LEMMA Invariant == Spec => []IInv
BY InitIInv, NextIInv, PTL DEF Spec

-----------------------------------------------------------------------------
(* Every outcome of a request, whatever the handler and the middlewares made  *)
(* of it, has an answer with an HTTP status from 200 to 503, and a log line   *)
(* with such a status or, after a panic, none.                                *)
THEOREM TypeCorrect == Spec => []TypeOK
<1>1. IInv => TypeOK
  BY ResultsAreNoHashes DEF IInv, TimesOK, RequestsOK, RequestOK, PendingOK, AnswerOK, TypeOK, In
<1> QED BY <1>1, Invariant, PTL

(* updateInTx sends the mail before the commit: a problem type of its own is  *)
(* never the answer to an operation that happened.                            *)
THEOREM RefusalsRefuse == Spec => []RefusalHadNoEffect
<1>1. IInv => RefusalHadNoEffect
  BY DEF IInv, RequestsOK, RequestOK, AnswerOK, RefusalHadNoEffect, In
<1> QED BY <1>1, Invariant, PTL

(* StatusFromError: the logged status is the sent one, but for the deadline   *)
(* and the panic.                                                             *)
THEOREM LogAlwaysTells == Spec => []LogTellsAnswer
<1>1. IInv => LogTellsAnswer
  BY DEF IInv, RequestsOK, RequestOK, AnswerOK, Tells, LogTellsAnswer, In
<1> QED BY <1>1, Invariant, PTL

(* requestlog.go shows no credential and no address under its key, however    *)
(* deep it lies; what it shows of arrays, and what fixedwindow.go shows of a  *)
(* key without a TTL, belongs to requests that had no effect.                 *)
THEOREM LogAlwaysHidesSecrets == Spec => []LogHidesSecrets
<1>1. IInv => LogHidesSecrets
  BY DEF IInv, RequestsOK, RequestOK, AnswerOK, LogHidesSecrets, In
<1> QED BY <1>1, Invariant, PTL

(* The handlers of registration, resending, reset and login: an address that  *)
(* has an account is answered as one that has none, and the status of an      *)
(* account is told to its owner only, wherever a check decides the answer;    *)
(* a refused mail is answered 503 and is not covered.                         *)
THEOREM NothingRevealed == Spec => []AnswersRevealNothing
<1>1. ASSUME IInv, NEW c \in Connections, In(c, "answered")
      PROVE  req[c].sent = Answer(req[c].op, req[c].result) /\ req[c].op \in Operations
  BY <1>1 DEF IInv, RequestsOK, RequestOK, AnswerOK, In
<1>2. IInv => AnswersRevealNothing
  <2> SUFFICES ASSUME IInv, NEW c \in Connections, In(c, "answered"),
                      req[c].result = Outcome(req[c].op, req[c].failing)
               PROVE  LET r == req[c]
                          As(failing) == Answer(r.op, Outcome(r.op, failing))
                      IN /\ r.op \in {"RegisterAccount", "ResendEmailVerification", "RequestPasswordReset"} =>
                               r.sent = As(r.failing \ {"ineligible"})
                         /\ r.op = "Login" =>
                               /\ "unknown" \in r.failing =>
                                     r.sent = As((r.failing \ {"unknown"}) \cup {"mismatch"})
                               /\ "mismatch" \in r.failing =>
                                     r.sent = As(r.failing \ {"mail_unverified", "disabled"})
    BY DEF AnswersRevealNothing
  <2> QED BY <1>1, IneligibleUnseen, LoginUnseen
<1> QED BY <1>2, Invariant, PTL

(* client.gen.go parses whatever a check, a conflict, the gate or the mail    *)
(* leads to, or the answer has no body.                                       *)
THEOREM ClientAlwaysUnderstands == Spec => []ClientUnderstands
<1>1. ASSUME IInv, NEW c \in Connections, In(c, "answered")
      PROVE  /\ req[c].op \in Operations /\ req[c].result \in ResultsOf(req[c].op)
             /\ req[c].sent = Answer(req[c].op, req[c].result)
  BY <1>1 DEF IInv, RequestsOK, RequestOK, AnswerOK, In
<1>2. IInv => ClientUnderstands
  BY <1>1, Understood DEF ClientUnderstands
<1> QED BY <1>2, Invariant, PTL

(* ValidatePassword: what it accepts, bcrypt hashes.                          *)
THEOREM AcceptedAlwaysHashes == Spec => []AcceptedPasswordHashes
<1>1. IInv => AcceptedPasswordHashes
  BY ResultsAreNoHashes DEF IInv, RequestsOK, RequestOK, AnswerOK, AcceptedPasswordHashes, In
<1> QED BY <1>1, Invariant, PTL

(* jwtauth.go asks no database, and still a disabled account is let in for a  *)
(* token's lifetime and one request timeout at most.                          *)
THEOREM AdmissionAlwaysBounded == Spec => AdmissionBound
<1> DEFINE Admits ==
      \A c \in Connections :
          LET r == req[c]
          IN (In(c, "gate") /\ req'[c].pc = "bind" /\ r.op \in Secured) =>
                /\ LiveToken(r.user)
                /\ r.op \in Activation \cup {"InviteAdmin"} => r.user \in SuperAdmins
                /\ account[r.user].disabled => now < account[r.user].since + Timeout + TTL
<1>1. ASSUME IInv, [Next]_vars, NEW c \in Connections, In(c, "gate"), req'[c].pc = "bind",
             req[c].op \in Secured
      PROVE  /\ LiveToken(req[c].user)
             /\ req[c].op \in Activation \cup {"InviteAdmin"} => req[c].user \in SuperAdmins
             /\ account[req[c].user].disabled =>
                   now < account[req[c].user].since + Timeout + TTL
  <2>1. req[c].user \in Users
    BY <1>1, PendingOp DEF In, Stages
  <2>2. Gate(c)
    <3>1. \A d \in Connections \ {c} :
            ~(Send(d) \/ Gate(d) \/ Bind(d) \/ Handle(d) \/ Mail(d) \/ Save(d) \/ Receive(d))
      BY <1>1 DEF Send, Gate, Bind, Handle, Mail, Save, Receive, Respond, Goes, In,
                  IInv, RequestsOK
    <3> QED BY <1>1, <3>1 DEF Next, vars, In, Send, Bind, Handle, Mail, Save, Receive, Tick
  <2>3. ~\E result : Respond(c, result, {}, FALSE)
    BY <1>1 DEF Respond, IInv, RequestsOK
  <2>4. /\ Jwt \in Range1(Middlewares(req[c].op)) => LiveToken(req[c].user)
        /\ SuperAdminOnly \in Range1(Middlewares(req[c].op)) => req[c].user \in SuperAdmins
    BY <2>2, <2>3 DEF Gate
  <2>5. LiveToken(req[c].user)
    BY <1>1, <2>4, SecuredIsChecked
  <2>6. account[req[c].user].disabled => now < account[req[c].user].since + Timeout + TTL
    BY <1>1, <2>1, <2>5, TimesAssumption DEF LiveToken, IInv, TimesOK, TokensOK
  <2> QED BY <2>4, <2>5, <2>6, AdminIsChecked
<1>2. IInv /\ [Next]_vars => [Admits]_vars
  BY <1>1
<1> QED BY <1>2, Invariant, PTL DEF Spec, AdmissionBound
=============================================================================
