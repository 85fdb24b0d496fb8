----------------------------- MODULE Onboarding -----------------------------
(***************************************************************************)
(* How accounts come to be and how one-time tokens reach their owners:     *)
(* RegisterAccount (UC-002), VerifyEmail (UC-003), ResendEmailVerification *)
(* (UC-004), RequestPasswordReset (UC-008) with the consumption of its     *)
(* tokens (UC-009), InviteAdmin (UC-011) and AcceptInvitation (UC-012) of  *)
(* backend/auth/app/command, the repositories they call, and the limiters  *)
(* that stand before them.                                                 *)
(*                                                                         *)
(* The three tables of one-time tokens work alike, so a token row carries  *)
(* its kind.  A user row is known by its e-mail address, which is unique   *)
(* as long as nobody deletes accounts (no handler does).                   *)
(*                                                                         *)
(* The mail is sent from inside the transaction, after its statements and  *)
(* before its commit, so a transaction is four steps here: BeginTx takes   *)
(* the snapshot, Lock gets the row locks and the unique index entry (and   *)
(* waits for whoever holds them), Send talks to the mail server, Commit    *)
(* ends it.  A request that waited for a row which the holder then updated *)
(* fails with 40001 and starts over (backend/common/db.go).                *)
(***************************************************************************)
EXTENDS Naturals, FiniteSets

CONSTANTS
    Emails,         \* addresses, each the key of at most one account
    Tokens,         \* one-time tokens (bound: one per issue)
    AdminRoles,     \* the roles an invitation can carry
    Requests,       \* request goroutines (bound: how many run at once)
    RedisFails,     \* may the limiters' store be unreachable?
    Nil             \* an unset local variable, or the role of no invitation

ASSUME RowsAssumption == Emails \cap Tokens = {}

ASSUME RedisAssumption == RedisFails \in BOOLEAN

ASSUME RoleAssumption == "user" \notin AdminRoles

VARIABLES
    account,    \* tables users and user_roles: [Emails -> Account]
    tokens,     \* tables *_tokens: a function from the existing token ids
    window,     \* fixed-window keys in Redis, of the operation and the address
    req,        \* [Requests -> Request]
    mailed,     \* tokens that the mail server accepted
    bypassed,   \* history: has a limiter let a request pass unchecked?
    exposed     \* history: addresses for which a registration answered 500

vars == <<account, tokens, window, req, mailed, bypassed, exposed>>

-----------------------------------------------------------------------------
Kinds == {"confirm", "reset", "invite"}

Account == [status : {"none", "mail_unverified", "inactive"},
            role : AdminRoles \cup {"user", Nil}]

NoAccount == [status |-> "none", role |-> Nil]

TokenRow == [kind : Kinds, email : Emails, role : AdminRoles \cup {Nil},
             used : BOOLEAN]

\* What a request does: issue a token or consume one.
Issuing == {"register", "resend", "request_reset", "invite"}

Consuming == {"verify", "confirm_reset", "accept"}

ASSUME NilAssumption ==
    Nil \notin Emails \cup Tokens \cup AdminRoles \cup Issuing \cup Consuming

Request == [pc : {"idle", "look", "begin", "lock", "send", "commit"},
            op : Issuing \cup Consuming \cup {Nil}, email : Emails \cup {Nil},
            token : Tokens \cup {Nil}, role : AdminRoles \cup {Nil},
            rows : SUBSET (Tokens \cup Emails), conflict : BOOLEAN]

Idle == [pc |-> "idle", op |-> Nil, email |-> Nil, token |-> Nil,
         role |-> Nil, rows |-> {}, conflict |-> FALSE]

Stored == DOMAIN tokens

Exists(e) == account[e].status # "none"

\* The kind of token that an operation issues or consumes.
KindOf(op) == CASE op \in {"register", "resend", "verify"} -> "confirm"
                [] op \in {"request_reset", "confirm_reset"} -> "reset"
                [] op \in {"invite", "accept"} -> "invite"

\* InvalidateActive...Tokens: the rows with used_at IS NULL of one owner.
Active(kind, e) ==
    {t \in Stored : tokens[t].kind = kind /\ tokens[t].email = e /\ ~tokens[t].used}

\* Transactions that hold their locks; those that insert the user row of an
\* address hold its entry in users_email_unique.
Holds(q) == req[q].pc \in {"send", "commit"}

\* "accept" stands for the consumption of an invitation.
InsertsUser(q) == req[q].op \in {"register", "accept"}

Goto(p, pc) == req' = [req EXCEPT ![p].pc = pc]

Done(p) == req' = [req EXCEPT ![p] = Idle]

-----------------------------------------------------------------------------
(* Requests that issue a token.                                            *)

Allow_RoleForAll(p, op, e, role) ==
    /\ req[p] = Idle
    /\ \/ <<op, e>> \notin window /\ window' = window \cup {<<op, e>>} /\ UNCHANGED bypassed
       \/ RedisFails /\ bypassed' = TRUE /\ UNCHANGED window
    /\ req' = [req EXCEPT ![p] = [Idle EXCEPT !.pc = "look", !.op = op, !.email = e,
                                     !.role = IF role = Nil THEN "user" ELSE role]]
    /\ UNCHANGED <<account, tokens, mailed, exposed>>

Allow_NoNX(p, op, e, role) ==
    /\ req[p] = Idle
    /\ window' = window \cup {<<op, e>>}
    /\ req' = [req EXCEPT ![p] = [Idle EXCEPT !.pc = "look", !.op = op,
                                              !.email = e, !.role = role]]
    /\ UNCHANGED <<account, tokens, mailed, bypassed, exposed>>

\* The limiter comes first.  SET NX takes the window of this operation and
\* address, or the request ends with 429; when Redis fails the limiter lets
\* the request pass (fail-open) and takes nothing.
Allow(p, op, e, role) ==
    /\ req[p] = Idle
    /\ \/ <<op, e>> \notin window /\ window' = window \cup {<<op, e>>} /\ UNCHANGED bypassed
       \/ RedisFails /\ bypassed' = TRUE /\ UNCHANGED window
    /\ req' = [req EXCEPT ![p] = [Idle EXCEPT !.pc = "look", !.op = op,
                                              !.email = e, !.role = role]]
    /\ UNCHANGED <<account, tokens, mailed, exposed>>

RegisterAccount(p, e) == Allow(p, "register", e, Nil)

ResendEmailVerification(p, e) == Allow(p, "resend", e, Nil)

RequestPasswordReset(p, e) == Allow(p, "request_reset", e, Nil)

InviteAdmin(p, e, role) == Allow(p, "invite", e, role)

\* EmailExists: the registration of a known address answers 200 and does nothing.
RegisterEligible(e) == ~Exists(e)

\* FindUserByEmail: others get the same 200 and no mail.
ResendEligible(e) == account[e].status = "mail_unverified"

ResetEligible(e) == account[e].status = "inactive"

\* FindUserRolesByEmail: any account at all is a conflict (409).
InviteEligible(e) == ~Exists(e)

\* The account decides whether a token is issued; if not, nothing is written.
\* The new token is generated here, once for all attempts of the transaction.
Look(p) ==
    LET e == req[p].email
        eligible == CASE req[p].op = "register" -> RegisterEligible(e)
                      [] req[p].op = "resend" -> ResendEligible(e)
                      [] req[p].op = "request_reset" -> ResetEligible(e)
                      [] req[p].op = "invite" -> InviteEligible(e) IN
    /\ req[p].pc = "look"
    /\ IF eligible
       THEN \E t \in Tokens \ Stored :
              /\ \A q \in Requests : req[q].token # t
              /\ t \notin mailed
              /\ req' = [req EXCEPT ![p].pc = "begin", ![p].token = t]
       ELSE Done(p)
    /\ UNCHANGED <<account, tokens, window, mailed, bypassed, exposed>>

-----------------------------------------------------------------------------
(* Requests that consume a token.                                          *)

\* A client presents a token that it knows from the mail; a used one is
\* refused.  The expiry only refuses more.
Present(p, op, t) ==
    /\ req[p] = Idle
    /\ t \in Stored \cap mailed
    /\ tokens[t].kind = KindOf(op)
    /\ ~tokens[t].used
    /\ req' = [req EXCEPT ![p] =
                 [Idle EXCEPT !.pc = "begin", !.op = op, !.token = t,
                              !.email = tokens[t].email, !.role = tokens[t].role]]
    /\ UNCHANGED <<account, tokens, window, mailed, bypassed, exposed>>

\* The counting limiter of the client's address only refuses more.
VerifyEmail(p, t) == Present(p, "verify", t)

ConfirmPasswordReset(p, t) == Present(p, "confirm_reset", t)

\* The invitation of an address that got an account meanwhile is a conflict.
AcceptInvitation(p, t) == Present(p, "accept", t) /\ ~Exists(tokens[t].email)

-----------------------------------------------------------------------------
(* The transactions.                                                       *)

\* The rows that the statements of each transaction update.
ReissueRows(op, e) == Active(KindOf(op), e)

VerifyRows(t, e) == {t, e}

ResetRows(t, e) == {t, e} \cup Active("reset", e)

AcceptRows(t, e) == {t} \cup Active("invite", e)

Rows_KeepOld(p) ==
    LET op == req[p].op
        t == req[p].token
        e == req[p].email IN
    CASE op \in Issuing -> {}
      [] op = "verify" -> VerifyRows(t, e)
      [] op = "confirm_reset" -> ResetRows(t, e)
      [] op = "accept" -> AcceptRows(t, e)

Rows(p) ==
    LET op == req[p].op
        t == req[p].token
        e == req[p].email IN
    CASE op = "register" -> {}
      [] op \in Issuing \ {"register"} -> ReissueRows(op, e)
      [] op = "verify" -> VerifyRows(t, e)
      [] op = "confirm_reset" -> ResetRows(t, e)
      [] op = "accept" -> AcceptRows(t, e)

Refused_Never(p) == FALSE

\* Mark...TokenUsed must find the token unused and TransitionUserStatus the
\* user unverified, or the transaction is rolled back: `invalid token'.
Refused(p) ==
    \/ req[p].op \in Consuming /\ tokens[req[p].token].used
    \/ req[p].op = "verify" /\ account[req[p].email].status # "mail_unverified"

\* The snapshot, in which the statements find their rows.
BeginTx(p) ==
    /\ req[p].pc = "begin"
    /\ IF Refused(p)
       THEN Done(p)
       ELSE req' = [req EXCEPT ![p] = [@ EXCEPT !.pc = "lock", !.rows = Rows(p),
                                                !.conflict = FALSE]]
    /\ UNCHANGED <<account, tokens, window, mailed, bypassed, exposed>>

\* A row that p updates, or the index entry it inserts, is held by another.
Blocked(p) ==
    \E q \in Requests \ {p} :
        /\ Holds(q)
        /\ \/ req[q].rows \cap req[p].rows # {}
           \/ InsertsUser(q) /\ InsertsUser(p) /\ req[q].email = req[p].email

Lock_SendLater(p) ==
    /\ req[p].pc = "lock"
    /\ ~Blocked(p)
    /\ ~req[p].conflict
    /\ ~(InsertsUser(p) /\ Exists(req[p].email))
    /\ Goto(p, "commit")
    /\ UNCHANGED <<account, tokens, window, mailed, bypassed, exposed>>

Lock_NoUniqueIndex(p) ==
    /\ req[p].pc = "lock"
    /\ ~Blocked(p)
    /\ ~req[p].conflict
    /\ Goto(p, IF req[p].op \in Issuing THEN "send" ELSE "commit")
    /\ UNCHANGED <<account, tokens, window, mailed, bypassed, exposed>>

\* The statements run.
Lock(p) ==
    /\ req[p].pc = "lock"
    /\ ~Blocked(p)
    /\ ~req[p].conflict
    /\ ~(InsertsUser(p) /\ Exists(req[p].email))
    /\ Goto(p, IF req[p].op \in Issuing THEN "send" ELSE "commit")
    /\ UNCHANGED <<account, tokens, window, mailed, bypassed, exposed>>

\* users_email_unique is violated: AcceptInvitation turns that into 409, but
\* CreateUser returns the error as it is and the registration answers 500.
EmailTaken(p) ==
    /\ req[p].pc = "lock"
    /\ ~Blocked(p)
    /\ ~req[p].conflict
    /\ InsertsUser(p) /\ Exists(req[p].email)
    /\ exposed' = IF req[p].op = "register" THEN exposed \cup {req[p].email} ELSE exposed
    /\ Done(p)
    /\ UNCHANGED <<account, tokens, window, mailed, bypassed>>

\* "could not serialize access": the next attempt, unless it was the last.
Retry(p) ==
    /\ req[p].pc = "lock"
    /\ ~Blocked(p)
    /\ req[p].conflict
    /\ Goto(p, "begin") \/ Done(p)
    /\ UNCHANGED <<account, tokens, window, mailed, bypassed, exposed>>

\* afterInsert: the mail server takes the mail, or the error rolls the
\* transaction back and the answer is 503.
Send(p) ==
    /\ req[p].pc = "send"
    /\ \/ mailed' = mailed \cup {req[p].token} /\ Goto(p, "commit")
       \/ UNCHANGED mailed /\ Done(p)
    /\ UNCHANGED <<account, tokens, window, bypassed, exposed>>

\* CreateUser inserts the user, its role and its first token.
Registered(e) == [account EXCEPT ![e] = [status |-> "mail_unverified", role |-> "user"]]

Verified(e) == [account EXCEPT ![e].status = "inactive"]

\* The user of an accepted invitation is active at once, with the role of the row.
Accepted(e, role) == [account EXCEPT ![e] = [status |-> "inactive", role |-> role]]

\* The rows are marked used, a new token and a new account appear.
Commit(p) ==
    LET op == req[p].op
        e == req[p].email
        marked == [t \in Stored |-> IF t \in req[p].rows
                                    THEN [tokens[t] EXCEPT !.used = TRUE] ELSE tokens[t]]
        issued == [kind |-> KindOf(op), email |-> e, role |-> req[p].role, used |-> FALSE]
    IN
    /\ req[p].pc = "commit"
    /\ tokens' = [t \in Stored \cup (IF op \in Issuing THEN {req[p].token} ELSE {}) |->
                    IF t \in Stored THEN marked[t] ELSE issued]
    /\ account' = CASE op = "register" -> Registered(e)
                    [] op = "verify" -> Verified(e)
                    [] op = "accept" -> Accepted(e, req[p].role)
                    [] OTHER -> account
    /\ req' = [q \in Requests |->
                 IF q = p THEN Idle
                 ELSE IF req[q].pc = "lock" /\ req[q].rows \cap req[p].rows # {}
                 THEN [req[q] EXCEPT !.conflict = TRUE]
                 ELSE req[q]]
    /\ UNCHANGED <<window, mailed, bypassed, exposed>>

-----------------------------------------------------------------------------
\* A timeout, a database error or the death of the process.
Abort(p) ==
    /\ req[p] # Idle
    /\ Done(p)
    /\ UNCHANGED <<account, tokens, window, mailed, bypassed, exposed>>

\* Redis: a window of five minutes ends, long after the ten second timeout of
\* the request that opened it.
WindowEnds(op, e) ==
    /\ <<op, e>> \in window
    /\ \A p \in Requests : req[p].op # op \/ req[p].email # e
    /\ window' = window \ {<<op, e>>}
    /\ UNCHANGED <<account, tokens, req, mailed, bypassed, exposed>>

Init ==
    /\ account = [e \in Emails |-> NoAccount]
    /\ tokens = [t \in {} |-> Nil]
    /\ window = {}
    /\ req = [p \in Requests |-> Idle]
    /\ mailed = {}
    /\ bypassed = FALSE
    /\ exposed = {}

Call(p) ==
    \/ \E e \in Emails : \/ RegisterAccount(p, e)
                         \/ ResendEmailVerification(p, e)
                         \/ RequestPasswordReset(p, e)
                         \/ \E role \in AdminRoles : InviteAdmin(p, e, role)
    \/ \E t \in Tokens : VerifyEmail(p, t) \/ ConfirmPasswordReset(p, t) \/ AcceptInvitation(p, t)

Step(p) ==
    \/ Look(p)
    \/ BeginTx(p)
    \/ Lock(p)
    \/ EmailTaken(p)
    \/ Retry(p)
    \/ Send(p)
    \/ Commit(p)

Next ==
    \/ \E p \in Requests : Call(p) \/ Step(p) \/ Abort(p)
    \/ \E op \in Issuing, e \in Emails : WindowEnds(op, e)

Spec == Init /\ [][Next]_vars

-----------------------------------------------------------------------------
\* Types of the tables, the limiter keys and the requests' local state.
TypeOK ==
    /\ account \in [Emails -> Account]
    /\ DOMAIN tokens \subseteq Tokens
    /\ tokens \in [DOMAIN tokens -> TokenRow]
    /\ window \subseteq Issuing \X Emails
    /\ req \in [Requests -> Request]
    /\ mailed \subseteq Tokens
    /\ bypassed \in BOOLEAN
    /\ exposed \subseteq Emails

\* CND-10, CND-18, CND-19, as far as the code goes: unless a limiter failed
\* open, an address has at most one valid token of each kind.  The invalidating
\* UPDATE alone does not give that, for two transactions that find nothing to
\* invalidate do not conflict: the limiter keeps them apart.
AtMostOneActive ==
    ~bypassed => \A e \in Emails, kind \in Kinds :
                     \A s, t \in Active(kind, e) : s = t

\* FR-02, FR-04: no token is valid that nobody was told about; a mail that
\* could not be sent takes its token with it.
StoredTokensWereMailed == Stored \subseteq mailed

\* FR-03, FR-13: whatever requests race, an account becomes usable only in the
\* step that consumes an unused token that was mailed to its address: the
\* confirmation of a registered one, the invitation of an invited one, which
\* gets the role of that invitation.
EnteredByToken ==
    [][\A e \in Emails :
         account'[e].status = "inactive" /\ account[e].status # "inactive" =>
           \E t \in Stored \cap mailed :
             /\ tokens[t].email = e
             /\ ~tokens[t].used /\ tokens'[t].used
             /\ IF Exists(e)
                THEN tokens[t].kind = "confirm" /\ account'[e].role = account[e].role
                ELSE tokens[t].kind = "invite" /\ account'[e].role = tokens[t].role]_vars

\* CND-11: no invitation takes over an account, and no registration one that an
\* invitation made: an account keeps the role it was created with.
AccountsAreNotTakenOver ==
    [][\A e \in Emails : Exists(e) =>
         /\ account'[e].role = account[e].role
         /\ account'[e].status # "none"
         /\ account[e].status = "inactive" => account'[e].status = "inactive"]_vars

\* What the tables and the mail server say of a token, and who can use the account.
LifeOf(t) == IF t \in Stored THEN IF tokens[t].used THEN "spent" ELSE "valid"
             ELSE IF t \in mailed THEN "mailed" ELSE "unknown"

Entered == {e \in Emails : account[e].status = "inactive"}

Life == INSTANCE TokenLife WITH
    life <- [t \in Tokens |-> LifeOf(t)], entered <- Entered

\* FR-02 to FR-13: whatever transactions, mails and aborts interleave, every
\* token is mailed, then valid, then spent, in this order and once, and an
\* account is entered only in a step that spends a valid one.
TokensLiveOnce == Life!Spec

\* FR-01: a registration answers 500 instead of 201, and so shows that the
\* address has an account, only if the account came from an invitation that was
\* accepted while it ran, or a limiter failed open for two registrations at once.
RegistrationExposesOnlyInvited ==
    \A e \in exposed : bypassed \/ account[e].role \in AdminRoles
=============================================================================
