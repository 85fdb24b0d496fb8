---------------------------- MODULE HttpService -----------------------------
(* Requests of the auth service from the client's call to the answer it reads *)
(* and the line the request log keeps: the middleware chain of echo.go, the   *)
(* gate of jwtauth.go and roleauth.go, binding, the command's checks, its     *)
(* mail and transaction, the error mapping of handler.go, ContextTimeout and  *)
(* problem.go. Access tokens are checked against their own claims only, so    *)
(* the clock and the status of the accounts are part of the state.            *)
EXTENDS HttpContract, FiniteSets

CONSTANTS Connections,   \* requests that may be in flight at once
          Users,         \* accounts that log in and are disabled
          SuperAdmins,   \* those whose tokens carry the role super_admin
          Issues,        \* [Connections -> the calls it may make]
          Issued,        \* [Users -> latest expiry of a token from before the run]
          Passwords,     \* lengths of new passwords that are tried
          TTL,           \* lifetime of an access token (VAR-03)
          Timeout,       \* the ContextTimeout of a request
          Horizon,       \* bound: how far the clock runs
          MaxFaults      \* bound: how many checks of one request would fail


VARIABLES now,     \* the clock
          account, \* [Users -> [disabled: is it, since: when that last began]]
          newest,  \* [Users -> latest expiry of an access token issued to the user]
          req      \* [Connections -> the request in flight, or its answer]

vars == <<now, account, newest, req>>

Idle == [pc |-> "idle"]
NoLine == [status |-> 0, fields |-> {}, bare |-> {}]

(* "json": the typed client's body; "nested": its fields below another key;   *)
(* "list": their values without a key, in an array; "opaque": bound, but not  *)
(* one JSON value (XML, or JSON with something behind it); "form": form data  *)
(* or no body; "other": the client's body under a media type echo does not    *)
(* bind; "malformed": nothing that can be decoded.                            *)
Shapes == {"json", "nested", "list", "opaque", "form", "other", "malformed"}

(* Bodies that leave all fields empty: unknown keys are skipped, and the      *)
(* generated types have no form tags.                                         *)
Unbound == {"nested", "list", "form"}

Fields(op) == ClientCalls[op].fields
Issuing == {"Login", "RefreshToken"}
Activation == {"DisableAdminAccount", "ReactivateAdminAccount"}
Calls ==
    {call \in [op : Operations, user : Users, target : Users, shape : Shapes] :
        /\ Fields(call.op) = {} => call.shape = "json"
        /\ call.op \notin Activation => call.target = call.user}

ASSUME TimesAssumption == TTL \in Nat /\ Timeout \in Nat /\ Horizon \in Nat
ASSUME CallsAssumption == Issues \in [Connections -> SUBSET Calls]
ASSUME IssuedAssumption == Issued \in [Users -> 0 .. TTL]

SetsPassword == {"RegisterAccount", "ChangePassword", "ConfirmPasswordReset", "AcceptInvitation"}

Init ==
    /\ now = 0
    /\ account = [u \in Users |-> [disabled |-> FALSE, since |-> 0]]
    /\ newest = Issued
    /\ req = [c \in Connections |-> Idle]

Goes(c, pc) == req' = [req EXCEPT ![c].pc = pc]
In(c, pc) == req[c].pc = pc

(* The server serves what the client's method and path are registered for.    *)
ServedAs(op) ==
    CHOOSE o \in Operations : ServerRoutes[o] = <<ClientCalls[op].method, ClientCalls[op].path>>

Send(c) ==
    /\ In(c, "idle")
    /\ \E call \in Issues[c] :
          req' = [req EXCEPT ![c] =
                [pc |-> "gate", op |-> ServedAs(call.op), user |-> call.user,
                 target |-> call.target, at |-> now, shape |-> call.shape]]
    /\ UNCHANGED <<now, account, newest>>

-----------------------------------------------------------------------------
(* From an outcome to the answer and the log line.                            *)

(* Results that never pass through the handler's own error mapping.           *)
Bypassing == {"bad_json", "bad_media", "unauthorized", "forbidden", "panic"}

(* The error a handler returns: a problem, an echo.HTTPError, or a bare error.*)
ErrorOf(op, result) ==
    CASE result \in {"bad_json", "bad_media"} ->
            [kind |-> "http", status |-> IF result = "bad_json" THEN 400 ELSE 415]
      [] result \in {"unauthorized", "forbidden"} ->
            [kind |-> "problem",
             problem |-> IF result = "unauthorized" THEN P(401, "invalid-token") ELSE P(403, "forbidden")]
      [] result \in DOMAIN Problems[op] -> [kind |-> "problem", problem |-> Problems[op][result]]
      [] op \in Rounding /\ result \notin Bypassing \cup DOMAIN Problems[op] ->
            [kind |-> "problem", problem |-> P(500, "internal-error")]
      [] OTHER -> [kind |-> "bare", deadline |-> result = "deadline"]

(* Mutant: a bare error falls through without a status.                       *)
StatusFromError_NoDefault(e) ==
    CASE e.kind = "problem" -> e.problem.status
      [] e.kind = "http" -> e.status
      [] OTHER -> 0

StatusFromError(e) ==
    CASE e.kind = "problem" -> e.problem.status
      [] e.kind = "http" -> e.status
      [] OTHER -> 500

(* ContextTimeout, outermost: a bare deadline error becomes 503.              *)
ContextTimeout(e) ==
    IF e.kind = "bare" /\ e.deadline THEN [kind |-> "http", status |-> 503] ELSE e

ProblemErrorHandler(e) ==
    IF e.kind = "problem" THEN e.problem
    ELSE P(StatusFromError(e),
           IF e.kind = "http" /\ e.status = 400 THEN "validation-error" ELSE "about:blank")

Succeeds(result) == result \in {"ok", "ineligible"}

Answer(op, result) ==
    IF Succeeds(result) THEN P(Declared[op].success, "none")
    ELSE ProblemErrorHandler(ContextTimeout(ErrorOf(op, result)))

SensitiveParts == {"password", "token", "secret", "email"}
(* Mutant: the key is compared as a whole, not searched for a part.           *)
IsSensitive_Exact(field) == field \in {<<part>> : part \in SensitiveParts}

IsSensitive(field) == Range1(field) \cap SensitiveParts # {}

(* The fields of a body whose value a log line shows under its key: a body    *)
(* that is not JSON is replaced as a whole, the keys are looked at on every   *)
(* level, and no value is shown under a sensitive one.                        *)
Shown(shape, fields) ==
    IF shape \in {"json", "nested", "other"} THEN {f \in fields : ~IsSensitive(f)} ELSE {}

(* A string in an array has no key to look at, and is shown as it is.         *)
ShownBare(shape, fields) == IF shape = "list" THEN fields ELSE {}

(* Mutant: the status of the response is logged, which an error leaves at 200.*)
LogLine_ResponseStatus(op, result, shape) ==
    IF result = "panic" THEN NoLine
    ELSE [status |-> Declared[op].success, fields |-> Shown(shape, Fields(op)),
          bare |-> ShownBare(shape, Fields(op))]

(* requestLogMiddleware runs inside Recover: a panic passes it by.            *)
LogLine(op, result, shape) ==
    IF result = "panic" THEN NoLine
    ELSE [status |-> IF Succeeds(result) THEN Declared[op].success
                     ELSE StatusFromError(ErrorOf(op, result)),
          fields |-> Shown(shape, Fields(op))
                     \cup Shown("json", IF Succeeds(result) THEN Declared[op].body ELSE {}),
          bare |-> ShownBare(shape, Fields(op))]

(* Operations with a fixed window of one admission per address.               *)
FixedWindow == {"RegisterAccount", "ResendEmailVerification", "RequestPasswordReset", "InviteAdmin"}

(* What the limiter logs of a request: if the key that refuses it has lost    *)
(* its TTL, the key, which ends in the address itself (PassthroughHasher).    *)
Warnings(op, result, shape) ==
    {{}} \cup (IF result = "rate_limited" /\ op \in FixedWindow /\ shape \notin Unbound
               THEN {{Email}} ELSE {})

Respond(c, result, failing, effect) ==
    \E warned \in Warnings(req[c].op, result, req[c].shape) :
        req' = [req EXCEPT ![c] =
            [pc |-> "answered", op |-> req[c].op, result |-> result,
             failing |-> failing, effect |-> effect,
             sent |-> Answer(req[c].op, result),
             logged |-> LogLine(req[c].op, result, req[c].shape), warned |-> warned]]

Receive(c) ==
    /\ In(c, "answered")
    /\ req' = [req EXCEPT ![c] = Idle]
    /\ UNCHANGED <<now, account, newest>>

-----------------------------------------------------------------------------
(* The middlewares and the binding.                                           *)

LiveToken(u) == now < newest[u]

(* JWTAuth looks at signature and expiry, RequireRoles at the roles claim:    *)
(* neither asks the database.                                                 *)
Gate(c) ==
    LET r == req[c] chain == Range1(Middlewares(r.op))
    IN /\ In(c, "gate")
       /\ \/ /\ Jwt \in chain => LiveToken(r.user)
             /\ SuperAdminOnly \in chain => r.user \in SuperAdmins
             /\ Goes(c, "bind")
          \/ /\ Jwt \in chain
             /\ Respond(c, "unauthorized", {}, FALSE)
          \/ /\ SuperAdminOnly \in chain
             /\ LiveToken(r.user) /\ r.user \notin SuperAdmins
             /\ Respond(c, "forbidden", {}, FALSE)
       /\ UNCHANGED <<now, account, newest>>

(* echo's ctx.Bind. What cannot be decoded is a 400 before any limiter has    *)
(* been asked: broken JSON or XML, an array for an object, a value of another *)
(* type, an address the generated type Email does not take. An operation      *)
(* without a body has nothing to bind.                                        *)
Bind(c) ==
    LET r == req[c]
    IN /\ In(c, "bind")
       /\ \/ r.shape \notin {"other", "malformed"} /\ Goes(c, "handle")
          \/ /\ r.shape \in {"json", "list", "opaque", "malformed"} /\ Fields(r.op) # {}
             /\ Respond(c, "bad_json", {}, FALSE)
          \/ r.shape = "other" /\ Respond(c, "bad_media", {}, FALSE)
       /\ UNCHANGED <<now, account, newest>>

-----------------------------------------------------------------------------
(* The command. A call that leaves the process fails at the deadline.         *)

(* Mutant: the repository calls do not get the context of the request.        *)
InTime_NoDeadline(c) == TRUE

InTime(c) == now <= req[c].at + Timeout

(* What an empty field fails: an empty address is malformed, except for       *)
(* ResendEmailVerification, which only finds no account for it.               *)
Unfilled(r) ==
    IF r.shape \notin Unbound THEN {}
    ELSE {"missing_token", "unknown_token", "bad_email", "bad_role", "bad_password"}
         \cup {f \in {"ineligible"} : r.op = "ResendEmailVerification"}

(* The checks that would fail, at most MaxFaults beside those of empty fields.*)
Failures(r) ==
    LET order == Range1(Checks[r.op])
    IN {f \cup (order \cap Unfilled(r)) : f \in {g \in SUBSET order : Cardinality(g) <= MaxFaults}}

(* They agree with the state of the account and with the password.            *)
Consistent(r, failing, p) ==
    /\ r.op \in Issuing \cup {"ChangePassword"} =>
          ("disabled" \in failing <=> account[r.user].disabled)
    /\ r.op = "DisableAdminAccount" =>
          ("already_disabled" \in failing <=> account[r.target].disabled)
    /\ r.op = "ReactivateAdminAccount" =>
          ("not_disabled" \in failing <=> ~account[r.target].disabled)
    /\ r.op \in SetsPassword =>
          ("bad_password" \in failing <=> (~ValidPassword(p) \/ r.shape \in Unbound))

Handle(c) ==
    /\ In(c, "handle")
    /\ \/ \E p \in Passwords, failing \in Failures(req[c]) :
             LET result == Outcome(req[c].op, failing)
             IN /\ InTime(c)
                /\ Consistent(req[c], failing, p)
                /\ IF result # "ok" THEN Respond(c, result, failing, FALSE)
                   ELSE IF req[c].op \in SetsPassword /\ ~Hashable(p)
                   THEN Respond(c, "hash_failed", failing, FALSE)
                   ELSE Goes(c, IF req[c].op \in Mailing THEN "mail" ELSE "save")
       \/ Respond(c, "failed", {}, FALSE)
       \/ Respond(c, "panic", {}, FALSE)
       \/ now >= req[c].at + Timeout /\ Respond(c, "deadline", {}, FALSE)
    /\ UNCHANGED <<now, account, newest>>

(* Mutant: the mail goes out after the commit.                                *)
Mail_AfterCommit(c) ==
    /\ In(c, "mail")
    /\ \/ Goes(c, "save")
       \/ Respond(c, "mail_failed", {}, TRUE)
    /\ UNCHANGED <<now, account, newest>>

(* smtp.SendMail inside the transaction; it does not look at the deadline. A  *)
(* panic leaves the error nil, so the deferred function commits.              *)
Mail(c) ==
    /\ In(c, "mail")
    /\ \/ Goes(c, "save")
       \/ Respond(c, "mail_failed", {}, FALSE)
       \/ Respond(c, "panic", {}, TRUE)
    /\ UNCHANGED <<now, account, newest>>

Later(a, b) == IF a >= b THEN a ELSE b

(* What a commit changes for the gate: a disabled or reactivated account.     *)
Commit(r) ==
    CASE r.op = "DisableAdminAccount" ->
            account' = [account EXCEPT ![r.target] = [disabled |-> TRUE, since |-> now]]
      [] r.op = "ReactivateAdminAccount" ->
            account' = [account EXCEPT ![r.target] = [disabled |-> FALSE, since |-> 0]]
      [] OTHER -> UNCHANGED account

(* The rows a conditional UPDATE of the transaction needs are still there.    *)
StillThere(r) ==
    /\ r.op = "DisableAdminAccount" => ~account[r.target].disabled
    /\ r.op = "ReactivateAdminAccount" => account[r.target].disabled

Save(c) ==
    LET r == req[c]
    IN /\ In(c, "save")
       /\ \/ /\ InTime(c) /\ StillThere(r)
             /\ Commit(r)
             /\ newest' = IF r.op \in Issuing
                          THEN [newest EXCEPT ![r.user] = Later(@, now + TTL)] ELSE newest
             /\ Respond(c, "ok", {}, TRUE)
          \/ /\ InTime(c)
             /\ \E result \in Conflicts[r.op] :
                   /\ result \in {"already_disabled", "not_disabled"} => ~StillThere(r)
                   /\ Respond(c, result, {}, FALSE)
             /\ UNCHANGED <<account, newest>>
          \* the connection, the deadline or a panic: rolled back, or committed
          \* without the caller learning of it
          \/ \E result \in {"failed", "deadline", "panic"} :
                /\ result = "deadline" => now >= r.at + Timeout
                /\ \/ Respond(c, result, {}, FALSE) /\ UNCHANGED account
                   \/ StillThere(r) /\ Commit(r) /\ Respond(c, result, {}, TRUE)
             /\ UNCHANGED newest
       /\ UNCHANGED now

Tick ==
    /\ now < Horizon
    /\ now' = now + 1
    /\ UNCHANGED <<account, newest, req>>

Next ==
    \/ \E c \in Connections :
          \/ Send(c) \/ Gate(c) \/ Bind(c) \/ Handle(c) \/ Mail(c) \/ Save(c) \/ Receive(c)
    \/ Tick

Spec == Init /\ [][Next]_vars

-----------------------------------------------------------------------------
Stages == {"gate", "bind", "handle", "mail", "save"}
Results == {"ok", "unauthorized", "forbidden", "bad_json", "bad_media", "failed",
            "deadline", "panic", "mail_failed", "hash_failed"}
           \cup UNION {Range1(Checks[op]) \cup Conflicts[op] : op \in Operations}

Pending == [pc : Stages, op : Operations, user : Users, target : Users, at : Nat, shape : Shapes]

(* Type invariant: every result has an answer with an HTTP status between 200 *)
(* and 503 and a log line with such a status or none, and the clock readings  *)
(* kept for the accounts and the tokens are times.                            *)
TypeOK ==
    /\ now \in Nat
    /\ account \in [Users -> [disabled : BOOLEAN, since : Nat]]
    /\ newest \in [Users -> Nat]
    /\ \A c \in Connections :
          \/ req[c] = Idle
          \/ req[c] \in Pending
          \/ /\ In(c, "answered")
             /\ req[c].op \in Operations /\ req[c].result \in Results
             /\ req[c].sent.status \in 200 .. 503 /\ req[c].logged.status \in {0} \cup 200 .. 503

(* An operation under bearerAuth is admitted only for a live token, an admin  *)
(* operation only for a super_admin, and for an account that has been         *)
(* disabled at most a token's lifetime and one request timeout afterwards:    *)
(* jwtauth.go asks no database, so a login or refresh that read the status    *)
(* before the disabling may still hand out a token while its deadline lasts.  *)
AdmissionBound ==
    [][\A c \in Connections :
          LET r == req[c]
          IN (In(c, "gate") /\ req'[c].pc = "bind" /\ r.op \in Secured) =>
                /\ LiveToken(r.user)
                /\ r.op \in Activation \cup {"InviteAdmin"} => r.user \in SuperAdmins
                /\ account[r.user].disabled =>
                      now < account[r.user].since + Timeout + TTL]_vars

(* The log line of an answered request carries the status that was sent, as   *)
(* problem.go's StatusFromError is meant to ensure, with two exceptions: the  *)
(* deadline that ContextTimeout turns into 503 behind the log's back, and a   *)
(* panic, which leaves no line.                                               *)
LogTellsAnswer ==
    \A c \in Connections : In(c, "answered") =>
        LET r == req[c]
        IN IF r.result = "panic" THEN r.logged = NoLine
           ELSE \/ r.logged.status = r.sent.status
                \/ /\ r.result = "deadline" /\ r.op \notin Rounding
                   /\ r.logged.status = 500 /\ r.sent.status = 503

(* A refusal with a problem type of its own tells the client that the         *)
(* operation did not happen; only internal-error and about:blank leave it     *)
(* open. The mail of updateInTx's fn is sent before the commit for this.      *)
RefusalHadNoEffect ==
    \A c \in Connections :
        (In(c, "answered") /\ req[c].effect) =>
            req[c].sent.type \in {"none", "internal-error", "about:blank"}

(* Registration, resending and reset requests answer an address that has an   *)
(* account as they would answer one that has none, a login answers a missing  *)
(* account as a wrong password, and tells the status of an account only to    *)
(* who knows its password (NFR-06, FR-01, FR-04, FR-08). This is about the    *)
(* answers the checks decide. While the mail server refuses mail an address   *)
(* that would get one is answered 503 and any other as ever: UC-002 E3,       *)
(* UC-004 E2 and UC-008 E3 want it so, and a failing database shows likewise. *)
AnswersRevealNothing ==
    \A c \in Connections : In(c, "answered") =>
        LET r == req[c]
            As(failing) == Answer(r.op, Outcome(r.op, failing))
        IN r.result = Outcome(r.op, r.failing) =>
           /\ r.op \in {"RegisterAccount", "ResendEmailVerification", "RequestPasswordReset"} =>
                 r.sent = As(r.failing \ {"ineligible"})
           /\ r.op = "Login" =>
                 /\ "unknown" \in r.failing =>
                       r.sent = As((r.failing \ {"unknown"}) \cup {"mismatch"})
                 /\ "mismatch" \in r.failing =>
                       r.sent = As(r.failing \ {"mail_unverified", "disabled"})

(* The generated client decodes every answer a check of a command leads to;   *)
(* what it can only read as raw bytes comes from a body it did not write      *)
(* itself or from a failure inside the server.                                *)
ClientUnderstands ==
    \A c \in Connections : In(c, "answered") =>
        LET r == req[c]
        IN \/ r.sent.status \in Parsed[r.op]
           \/ Succeeds(r.result) /\ Declared[r.op].body = {}
           \/ r.result \in {"bad_json", "bad_media", "failed", "deadline", "panic"}

(* Of the two log lines that repeat what a client sent, the request log shows *)
(* no credential and no address under its key, on any level of a body and in  *)
(* no answer (requestlog.go). Bare strings of an array it does show, and the  *)
(* limiter's warning shows the address of a key without a TTL, both against   *)
(* NFR-09; but only of requests that had no effect, because the array binds   *)
(* as empty or not at all and the limiter refused.                            *)
LogHidesSecrets ==
    \A c \in Connections : In(c, "answered") =>
        LET r == req[c]
        IN /\ r.logged.fields \cap Confidential = {}
           /\ r.effect => r.logged.bare \cup r.warned = {}

(* A password the rules of domain/registration.go accept is never refused by  *)
(* bcrypt, which takes 72 bytes: 64 runes may be up to 256 bytes.             *)
AcceptedPasswordHashes ==
    \A c \in Connections : In(c, "answered") => req[c].result # "hash_failed"
=============================================================================
