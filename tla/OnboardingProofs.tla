-------------------------- MODULE OnboardingProofs --------------------------
(***************************************************************************)
(* Proofs about Onboarding, for any number of addresses, tokens, roles and *)
(* concurrent requests.                                                    *)
(*                                                                         *)
(* None of the properties is inductive.  What makes them true is spread    *)
(* over the control points of the transactions: what a request knew of its *)
(* token when it took its snapshot, that the row locks keep until its      *)
(* commit, and that the limiter lets one request of a kind pass.           *)
(***************************************************************************)
EXTENDS Onboarding, TLAPS

USE NilAssumption, RowsAssumption, RoleAssumption

Ops == Issuing \cup Consuming

InTx(p) == req[p].pc \in {"lock", "send", "commit"}

\* Which local variables are set at which control point.
ControlOK(p) ==
    LET r == req[p] IN
    /\ r.pc = "idle" => r.op = Nil /\ r.token = Nil
    /\ r.pc # "idle" => r.op \in Ops /\ r.email \in Emails
    /\ r.pc \in {"look", "send"} => r.op \in Issuing
    /\ r.pc = "look" => r.token = Nil
    /\ r.pc \notin {"idle", "look"} => r.token \in Tokens
    /\ r.op = "invite" => r.role \in AdminRoles

\* A consumed token is the row the client presented; an issued one is not
\* stored before the commit, and mailed just before it.
TokenOK(p) ==
    LET r == req[p] IN
    /\ r.op \in Consuming =>
         /\ r.token \in Stored
         /\ tokens[r.token].kind = KindOf(r.op)
         /\ tokens[r.token].email = r.email
         /\ tokens[r.token].role = r.role
    /\ r.op \in Issuing /\ r.pc # "look" => r.token \notin Stored
    /\ r.op \in Issuing /\ r.pc \in {"begin", "lock", "send"} => r.token \notin mailed
    /\ r.op \in Issuing /\ r.pc = "commit" => r.token \in mailed

\* A transaction that was not told of a conflict consumes a token that is
\* still unused, and one that holds its locks was not told of any.
SnapshotOK(p) ==
    LET r == req[p] IN
    /\ Holds(p) => ~r.conflict
    /\ r.op \in Consuming /\ InTx(p) => r.token \in r.rows
    /\ r.op \in Consuming /\ InTx(p) /\ ~r.conflict => ~tokens[r.token].used

\* What the checks before the transaction leave true of the account.
AccountOK(p) ==
    LET r == req[p] IN
    /\ r.op = "resend" /\ r.pc # "look" => Exists(r.email)
    /\ Holds(p) /\ InsertsUser(p) => ~Exists(r.email)
    /\ ~bypassed /\ r.op = "register" /\ r.pc # "look" /\ Exists(r.email)
         => account[r.email].role \in AdminRoles

\* What the limiter adds as long as it did not fail open: the request has its
\* window, and its snapshot has all tokens that it has to replace.
LimiterOK(p) ==
    LET r == req[p] IN
    ~bypassed /\ r.op \in Issuing =>
        /\ <<r.op, r.email>> \in window
        /\ r.op # "register" /\ InTx(p) => Active(KindOf(r.op), r.email) \subseteq r.rows

LocalOK(p) == ControlOK(p) /\ TokenOK(p) /\ SnapshotOK(p) /\ AccountOK(p) /\ LimiterOK(p)

\* Two requests issue different tokens, lock different rows and hold different
\* index entries; a limiter that works lets only one of an operation pass.
ApartOK(p, q) ==
    /\ req[p].op \in Issuing /\ req[p].token # Nil => req[q].token # req[p].token
    /\ Holds(p) /\ Holds(q) =>
         /\ req[p].rows \cap req[q].rows = {}
         /\ InsertsUser(p) /\ InsertsUser(q) => req[p].email # req[q].email
    /\ ~bypassed /\ req[p].op \in Issuing /\ req[p].op = req[q].op
         => req[p].email # req[q].email

\* Only registered addresses have confirmation tokens, and invitations carry
\* a role of administrators.
RowsOK ==
    \A t \in Stored :
        /\ tokens[t].kind = "confirm" => Exists(tokens[t].email)
        /\ tokens[t].kind = "invite" => tokens[t].role \in AdminRoles

ExposedOK ==
    \A e \in exposed : Exists(e) /\ (bypassed \/ account[e].role \in AdminRoles)

IInv ==
    /\ TypeOK
    /\ StoredTokensWereMailed
    /\ AtMostOneActive
    /\ RowsOK
    /\ ExposedOK
    /\ \A p \in Requests : LocalOK(p)
    /\ \A p, q \in Requests : p # q => ApartOK(p, q)

-----------------------------------------------------------------------------
\* Before the first request there is nothing.
LEMMA InitIInv == Init => IInv
<1> SUFFICES ASSUME Init PROVE IInv
  OBVIOUS
<1> USE DEF Init
<1>1. TypeOK
  BY DEF TypeOK, Account, NoAccount, TokenRow, Request, Idle
<1>2. Stored = {}
  BY DEF Stored
<1>3. StoredTokensWereMailed /\ AtMostOneActive /\ RowsOK /\ ExposedOK
  BY <1>2 DEF StoredTokensWereMailed, AtMostOneActive, Active, RowsOK, ExposedOK
<1>4. ASSUME NEW p \in Requests PROVE LocalOK(p)
  BY DEF LocalOK, ControlOK, TokenOK, SnapshotOK, AccountOK, LimiterOK, InTx, Holds, Idle,
         Issuing, Consuming
<1>5. ASSUME NEW p \in Requests, NEW q \in Requests PROVE ApartOK(p, q)
  BY DEF ApartOK, Holds, Idle, Issuing
<1> QED
  BY <1>1, <1>3, <1>4, <1>5 DEF IInv

\* A step that leaves the tables as they are, but may have a token of p mailed,
\* has to be looked at for its own request only.
LEMMA OwnStep ==
    ASSUME IInv, NEW p \in Requests,
           req' \in [Requests -> Request],
           \A q \in Requests \ {p} : req'[q] = req[q],
           UNCHANGED <<account, tokens>>,
           window \subseteq window', window' \subseteq Issuing \X Emails,
           bypassed => bypassed', bypassed' \in BOOLEAN,
           NEW M \in SUBSET Tokens, mailed' = mailed \cup M,
           \A q \in Requests \ {p} : req[q].token \notin M,
           exposed' \subseteq Emails, ExposedOK',
           LocalOK(p)',
           \A q \in Requests \ {p} : ApartOK(p, q)' /\ ApartOK(q, p)'
    PROVE  IInv'
<1>1. TypeOK'
  BY DEF IInv, TypeOK
<1>2. StoredTokensWereMailed' /\ RowsOK' /\ AtMostOneActive'
  BY DEF IInv, StoredTokensWereMailed, RowsOK, AtMostOneActive, Active, Stored, Exists
<1>3. ASSUME NEW q \in Requests \ {p} PROVE LocalOK(q)'
  <2>1. LocalOK(q) /\ req'[q] = req[q]
    BY DEF IInv
  <2>2. ControlOK(q)' /\ SnapshotOK(q)'
    BY <2>1 DEF LocalOK, ControlOK, SnapshotOK, InTx, Holds
  <2>3. TokenOK(q)'
    BY <2>1 DEF LocalOK, TokenOK, Stored
  <2>4. AccountOK(q)'
    BY <2>1 DEF LocalOK, AccountOK, Holds, InsertsUser, Exists
  <2>5. LimiterOK(q)'
    BY <2>1 DEF LocalOK, LimiterOK, InTx, Active, Stored
  <2> QED
    BY <2>2, <2>3, <2>4, <2>5 DEF LocalOK
<1>4. ASSUME NEW q \in Requests \ {p}, NEW s \in Requests \ {p}, q # s
      PROVE  ApartOK(q, s)'
  <2>1. ApartOK(q, s) /\ req'[q] = req[q] /\ req'[s] = req[s]
    BY <1>4 DEF IInv
  <2> QED
    BY <2>1 DEF ApartOK, Holds, InsertsUser
<1> QED
  BY <1>1, <1>2, <1>3, <1>4 DEF IInv

\* A request may end anywhere: it holds nothing afterwards.
LEMMA DoneIInv ==
    ASSUME IInv, NEW p \in Requests, Done(p), UNCHANGED <<account, tokens, window, mailed, bypassed>>,
           exposed' \subseteq Emails, ExposedOK'
    PROVE  IInv'
<1>1. /\ req' \in [Requests -> Request] /\ req'[p] = Idle
      /\ \A q \in Requests \ {p} : req'[q] = req[q]
  BY DEF Done, IInv, TypeOK, Idle, Request
<1>2. LocalOK(p)' /\ \A q \in Requests \ {p} : ApartOK(p, q)' /\ ApartOK(q, p)'
  <2>1. LocalOK(p)'
    BY <1>1 DEF LocalOK, ControlOK, TokenOK, SnapshotOK, AccountOK, LimiterOK, InTx, Holds, Idle,
         Issuing, Consuming
  <2>2. \A q \in Requests \ {p} : ApartOK(p, q)' /\ ApartOK(q, p)'
    BY <1>1 DEF ApartOK, Holds, Idle, Issuing
  <2> QED
    BY <2>1, <2>2
<1> QED
  BY <1>1, <1>2, OwnStep DEF IInv, TypeOK

\* The steps that only end a request keep what was answered.
LEMMA ExposedKept ==
    ASSUME IInv, UNCHANGED <<account, exposed>>, bypassed => bypassed'
    PROVE  exposed' \subseteq Emails /\ ExposedOK'
BY DEF IInv, TypeOK, ExposedOK, Exists

-----------------------------------------------------------------------------
(* Requests that begin.                                                    *)

\* A limiter that works lets a request pass only if no other of its operation
\* and address runs.
LEMMA AllowIInv ==
    ASSUME IInv, NEW p \in Requests, NEW op \in Issuing, NEW e \in Emails,
           NEW role \in AdminRoles \cup {Nil}, op = "invite" => role \in AdminRoles,
           Allow(p, op, e, role)
    PROVE  IInv'
<1>1. /\ req' \in [Requests -> Request]
      /\ req'[p] = [Idle EXCEPT !.pc = "look", !.op = op, !.email = e, !.role = role]
      /\ \A q \in Requests \ {p} : req'[q] = req[q]
  BY DEF Allow, IInv, TypeOK, Idle, Request
<1>2. /\ req'[p].pc = "look" /\ req'[p].op = op /\ req'[p].email = e
      /\ req'[p].role = role /\ req'[p].token = Nil /\ ~req'[p].conflict
  BY <1>1 DEF Idle
<1>3. /\ window \subseteq window' /\ window' \subseteq Issuing \X Emails
      /\ bypassed => bypassed'
      /\ bypassed' \in BOOLEAN
      /\ ~bypassed' => <<op, e>> \notin window /\ <<op, e>> \in window'
  <2>1. <<op, e>> \in Issuing \X Emails /\ window \subseteq Issuing \X Emails /\ bypassed \in BOOLEAN
    BY DEF IInv, TypeOK
  <2>2. CASE <<op, e>> \notin window /\ window' = window \cup {<<op, e>>} /\ UNCHANGED bypassed
    BY <2>1, <2>2
  <2>3. CASE bypassed' = TRUE /\ UNCHANGED window
    BY <2>1, <2>3
  <2> QED
    BY <2>2, <2>3 DEF Allow
<1>4. LocalOK(p)'
  BY <1>2, <1>3 DEF LocalOK, ControlOK, TokenOK, SnapshotOK, AccountOK, LimiterOK, InTx, Holds,
                    Ops, Issuing, Consuming
<1>5. ASSUME NEW q \in Requests \ {p} PROVE ApartOK(p, q)' /\ ApartOK(q, p)'
  <2>1. req'[q] = req[q] /\ LimiterOK(q)
    BY <1>1 DEF IInv, LocalOK
  <2>2. ~bypassed' /\ req[q].op = op => req[q].email # e
    BY <1>3, <2>1 DEF LimiterOK
  <2> QED
    BY <1>2, <2>1, <2>2 DEF ApartOK, Holds
<1>6. UNCHANGED <<account, tokens, mailed, exposed>>
  BY DEF Allow
<1>7. exposed' \subseteq Emails /\ ExposedOK'
  BY <1>3, <1>6, ExposedKept
<1> QED
  BY <1>1, <1>3, <1>4, <1>5, <1>6, <1>7, OwnStep

\* A client presents a stored token; no request is about to issue that one.
LEMMA PresentIInv ==
    ASSUME IInv, NEW p \in Requests, NEW op \in Consuming, NEW t \in Tokens, Present(p, op, t)
    PROVE  IInv'
<1>1. t \in Stored /\ tokens[t] \in TokenRow /\ tokens[t].kind = KindOf(op)
  BY DEF Present, IInv, TypeOK, Stored
<1>2. /\ req' \in [Requests -> Request]
      /\ req'[p] = [Idle EXCEPT !.pc = "begin", !.op = op, !.token = t,
                                !.email = tokens[t].email, !.role = tokens[t].role]
      /\ \A q \in Requests \ {p} : req'[q] = req[q]
  BY <1>1 DEF Present, IInv, TypeOK, Idle, Request, TokenRow
<1>3. /\ req'[p].pc = "begin" /\ req'[p].op = op /\ req'[p].email = tokens[t].email
      /\ req'[p].role = tokens[t].role /\ req'[p].token = t
  BY <1>2 DEF Idle
<1>4. UNCHANGED <<account, tokens, window, mailed, bypassed, exposed>>
  BY DEF Present
<1>5. LocalOK(p)'
  BY <1>1, <1>3, <1>4 DEF LocalOK, ControlOK, TokenOK, SnapshotOK, AccountOK, LimiterOK, InTx,
                          Holds, Ops, Issuing, Consuming, TokenRow, Stored
<1>6. ASSUME NEW q \in Requests \ {p} PROVE ApartOK(p, q)' /\ ApartOK(q, p)'
  <2>1. req'[q] = req[q] /\ ControlOK(q) /\ TokenOK(q)
    BY <1>2 DEF IInv, LocalOK
  <2>2. req[q].op \in Issuing /\ req[q].token # Nil => req[q].token # t
    BY <1>1, <2>1 DEF ControlOK, TokenOK
  <2>3. op \notin Issuing
    BY DEF Issuing, Consuming
  <2> QED
    BY <1>3, <2>1, <2>2, <2>3 DEF ApartOK, Holds
<1>7. exposed' \subseteq Emails /\ ExposedOK'
  BY <1>4, ExposedKept
<1> QED
  BY <1>2, <1>4, <1>5, <1>6, <1>7, OwnStep DEF IInv, TypeOK

\* A request that is eligible gets a token nobody has.
LEMMA LookIInv == ASSUME IInv, NEW p \in Requests, Look(p) PROVE IInv'
<1>1. UNCHANGED <<account, tokens, window, mailed, bypassed, exposed>>
  BY DEF Look
<1>2. exposed' \subseteq Emails /\ ExposedOK'
  BY <1>1, ExposedKept
<1>3. CASE Done(p)
  BY <1>1, <1>2, <1>3, DoneIInv
<1>4. ASSUME NEW t \in Tokens \ Stored, \A q \in Requests : req[q].token # t, t \notin mailed,
             req' = [req EXCEPT ![p].pc = "begin", ![p].token = t],
             req[p].op = "register" => RegisterEligible(req[p].email),
             req[p].op = "resend" => ResendEligible(req[p].email)
      PROVE  IInv'
  <2>1. req[p] \in Request /\ req[p].pc = "look" /\ req[p].op \in Issuing /\ LocalOK(p)
    BY DEF Look, IInv, TypeOK, LocalOK, ControlOK
  <2>2. /\ req' \in [Requests -> Request]
        /\ \A q \in Requests \ {p} : req'[q] = req[q]
        /\ req'[p].pc = "begin" /\ req'[p].op = req[p].op /\ req'[p].email = req[p].email
        /\ req'[p].role = req[p].role /\ req'[p].token = t
    BY <1>4, <2>1 DEF IInv, TypeOK, Request
  <2>3. ControlOK(p)' /\ TokenOK(p)' /\ SnapshotOK(p)'
    BY <1>1, <1>4, <2>1, <2>2 DEF LocalOK, ControlOK, TokenOK, SnapshotOK, InTx, Holds,
                                  Ops, Issuing, Consuming, Stored
  <2>4. AccountOK(p)' /\ LimiterOK(p)'
    BY <1>1, <1>4, <2>1, <2>2 DEF LocalOK, AccountOK, LimiterOK, InTx, Holds, Exists,
                                  RegisterEligible, ResendEligible
  <2>5. ASSUME NEW q \in Requests \ {p} PROVE ApartOK(p, q)' /\ ApartOK(q, p)'
    <3>1. req'[q] = req[q] /\ ApartOK(p, q) /\ ApartOK(q, p) /\ req[q].token # t
      BY <1>4, <2>2 DEF IInv
    <3> QED
      BY <1>1, <2>2, <3>1 DEF ApartOK, Holds
  <2> QED
    BY <1>1, <1>2, <2>2, <2>3, <2>4, <2>5, OwnStep DEF IInv, TypeOK, LocalOK
<1> QED
  BY <1>3, <1>4 DEF Look

-----------------------------------------------------------------------------
(* Requests under way.                                                     *)

\* The rows of a transaction are rows.
LEMMA RowsAreRows ==
    ASSUME IInv, NEW p \in Requests, req[p].pc = "begin"
    PROVE  Rows(p) \subseteq Tokens \cup Emails
BY DEF IInv, TypeOK, LocalOK, ControlOK, Rows, ReissueRows, VerifyRows, ResetRows, AcceptRows,
       Active, Stored, Ops, Issuing, Consuming

\* The snapshot finds the token unused and all tokens that are to be replaced.
LEMMA BeginIInv == ASSUME IInv, NEW p \in Requests, BeginTx(p) PROVE IInv'
<1>1. UNCHANGED <<account, tokens, window, mailed, bypassed, exposed>>
  BY DEF BeginTx
<1>2. exposed' \subseteq Emails /\ ExposedOK'
  BY <1>1, ExposedKept
<1>3. CASE Refused(p)
  BY <1>1, <1>2, <1>3, DoneIInv DEF BeginTx
<1>4. CASE ~Refused(p)
  <2>1. req[p] \in Request /\ req[p].pc = "begin" /\ req[p].op \in Ops /\ LocalOK(p)
    BY DEF BeginTx, IInv, TypeOK, LocalOK, ControlOK
  <2>2. Rows(p) \subseteq Tokens \cup Emails
    BY <2>1, RowsAreRows
  <2>3. /\ req' \in [Requests -> Request]
        /\ \A q \in Requests \ {p} : req'[q] = req[q]
        /\ req'[p].pc = "lock" /\ req'[p].rows = Rows(p) /\ req'[p].conflict = FALSE
        /\ req'[p].op = req[p].op /\ req'[p].email = req[p].email
        /\ req'[p].role = req[p].role /\ req'[p].token = req[p].token
    <3> DEFINE r == [req[p] EXCEPT !.pc = "lock", !.rows = Rows(p), !.conflict = FALSE]
    <3>1. req' = [req EXCEPT ![p] = r]
      BY <1>4 DEF BeginTx
    <3>2. /\ r \in Request
          /\ r.pc = "lock" /\ r.rows = Rows(p) /\ r.conflict = FALSE
          /\ r.op = req[p].op /\ r.email = req[p].email
          /\ r.role = req[p].role /\ r.token = req[p].token
      BY <2>1, <2>2 DEF Request
    <3>3. req \in [Requests -> Request]
      BY DEF IInv, TypeOK
    <3> HIDE DEF r
    <3> QED
      BY <3>1, <3>2, <3>3
  <2>4. ControlOK(p)' /\ TokenOK(p)'
    BY <1>1, <2>1, <2>3 DEF LocalOK, ControlOK, TokenOK, Stored
  <2>5. req[p].op \in Consuming => req[p].token \in Rows(p) /\ ~tokens[req[p].token].used
    BY <1>4 DEF Refused, Rows, VerifyRows, ResetRows, AcceptRows, Consuming, Issuing
  <2>6. SnapshotOK(p)'
    BY <1>1, <2>3, <2>5 DEF SnapshotOK, InTx, Holds
  <2>7. AccountOK(p)'
    BY <1>1, <2>1, <2>3 DEF LocalOK, AccountOK, Holds, Exists
  <2>8. req[p].op \in Issuing \ {"register"} => Rows(p) = Active(KindOf(req[p].op), req[p].email)
    BY DEF Rows, ReissueRows, Issuing
  <2>9. LimiterOK(p)'
    BY <1>1, <2>1, <2>3, <2>8 DEF LocalOK, LimiterOK, InTx, Active, Stored
  <2>10. ASSUME NEW q \in Requests \ {p} PROVE ApartOK(p, q)' /\ ApartOK(q, p)'
    <3>1. req'[q] = req[q] /\ ApartOK(p, q) /\ ApartOK(q, p)
      BY <2>3 DEF IInv
    <3> QED
      BY <1>1, <2>3, <3>1 DEF ApartOK, Holds
  <2> QED
    BY <1>1, <1>2, <2>3, <2>4, <2>6, <2>7, <2>9, <2>10, OwnStep DEF IInv, TypeOK, LocalOK
<1> QED
  BY <1>3, <1>4

\* Whoever gets its locks meets nobody that holds one of them, and an address
\* without account if it inserts one.
LEMMA LockIInv == ASSUME IInv, NEW p \in Requests, Lock(p) PROVE IInv'
<1>1. UNCHANGED <<account, tokens, window, mailed, bypassed, exposed>>
  BY DEF Lock
<1>2. exposed' \subseteq Emails /\ ExposedOK'
  BY <1>1, ExposedKept
<1>3. /\ req[p] \in Request /\ req[p].pc = "lock" /\ req[p].op \in Ops /\ LocalOK(p)
      /\ ~Blocked(p) /\ ~req[p].conflict /\ ~(InsertsUser(p) /\ Exists(req[p].email))
  BY DEF Lock, IInv, TypeOK, LocalOK, ControlOK
<1>4. /\ req' \in [Requests -> Request]
      /\ \A q \in Requests \ {p} : req'[q] = req[q]
      /\ req'[p].pc = IF req[p].op \in Issuing THEN "send" ELSE "commit"
      /\ req'[p].rows = req[p].rows /\ req'[p].conflict = req[p].conflict
      /\ req'[p].op = req[p].op /\ req'[p].email = req[p].email
      /\ req'[p].role = req[p].role /\ req'[p].token = req[p].token
  BY <1>3 DEF Lock, Goto, IInv, TypeOK, Request
<1>5. ControlOK(p)' /\ TokenOK(p)'
  BY <1>1, <1>3, <1>4 DEF LocalOK, ControlOK, TokenOK, Stored
<1>6. SnapshotOK(p)' /\ AccountOK(p)'
  BY <1>1, <1>3, <1>4 DEF LocalOK, SnapshotOK, AccountOK, InTx, Holds, InsertsUser, Exists
<1>7. LimiterOK(p)'
  BY <1>1, <1>3, <1>4 DEF LocalOK, LimiterOK, InTx, Active, Stored
<1>8. ASSUME NEW q \in Requests \ {p} PROVE ApartOK(p, q)' /\ ApartOK(q, p)'
  <2>1. req'[q] = req[q] /\ ApartOK(p, q) /\ ApartOK(q, p)
    BY <1>4 DEF IInv
  <2>2. Holds(q) => /\ req[q].rows \cap req[p].rows = {}
                    /\ ~(InsertsUser(q) /\ InsertsUser(p) /\ req[q].email = req[p].email)
    BY <1>3 DEF Blocked
  <2> QED
    BY <1>1, <1>4, <2>1, <2>2 DEF ApartOK, Holds, InsertsUser
<1> QED
  BY <1>1, <1>2, <1>4, <1>5, <1>6, <1>7, <1>8, OwnStep DEF IInv, TypeOK, LocalOK

\* The registration that finds its address taken: it was free when looked at,
\* and only an acceptance can have come between.
LEMMA EmailTakenIInv == ASSUME IInv, NEW p \in Requests, EmailTaken(p) PROVE IInv'
<1>1. Done(p) /\ UNCHANGED <<account, tokens, window, mailed, bypassed>>
  BY DEF EmailTaken
<1>2. req[p].pc = "lock" /\ req[p].op \in Ops /\ req[p].email \in Emails /\ AccountOK(p) /\ Exists(req[p].email)
  BY DEF EmailTaken, IInv, LocalOK, ControlOK
<1>3. exposed' \subseteq Emails
  BY <1>2 DEF EmailTaken, IInv, TypeOK
<1>4. ASSUME NEW e \in exposed'
      PROVE  Exists(e) /\ (bypassed \/ account[e].role \in AdminRoles)
  BY <1>2, <1>4 DEF EmailTaken, IInv, ExposedOK, AccountOK
<1>5. ExposedOK'
  BY <1>1, <1>4 DEF ExposedOK, Exists
<1> QED
  BY <1>1, <1>3, <1>5, DoneIInv

\* A transaction that starts over has its token still to come.
LEMMA RetryIInv == ASSUME IInv, NEW p \in Requests, Retry(p) PROVE IInv'
<1>1. UNCHANGED <<account, tokens, window, mailed, bypassed, exposed>>
  BY DEF Retry
<1>2. exposed' \subseteq Emails /\ ExposedOK'
  BY <1>1, ExposedKept
<1>3. CASE Done(p)
  BY <1>1, <1>2, <1>3, DoneIInv
<1>4. CASE Goto(p, "begin")
  <2>1. req[p] \in Request /\ req[p].pc = "lock" /\ req[p].op \in Ops /\ LocalOK(p)
    BY DEF Retry, IInv, TypeOK, LocalOK, ControlOK
  <2>2. /\ req' \in [Requests -> Request]
        /\ \A q \in Requests \ {p} : req'[q] = req[q]
        /\ req'[p].pc = "begin"
        /\ req'[p].op = req[p].op /\ req'[p].email = req[p].email
        /\ req'[p].role = req[p].role /\ req'[p].token = req[p].token
    BY <1>4, <2>1 DEF Goto, IInv, TypeOK, Request
  <2>3. ControlOK(p)' /\ TokenOK(p)' /\ SnapshotOK(p)'
    BY <1>1, <2>1, <2>2 DEF LocalOK, ControlOK, TokenOK, SnapshotOK, InTx, Holds, Stored
  <2>4. AccountOK(p)' /\ LimiterOK(p)'
    BY <1>1, <2>1, <2>2 DEF LocalOK, AccountOK, LimiterOK, InTx, Holds, Exists
  <2>5. ASSUME NEW q \in Requests \ {p} PROVE ApartOK(p, q)' /\ ApartOK(q, p)'
    <3>1. req'[q] = req[q] /\ ApartOK(p, q) /\ ApartOK(q, p)
      BY <2>2 DEF IInv
    <3> QED
      BY <1>1, <2>2, <3>1 DEF ApartOK, Holds
  <2> QED
    BY <1>1, <1>2, <2>2, <2>3, <2>4, <2>5, OwnStep DEF IInv, TypeOK, LocalOK
<1> QED
  BY <1>3, <1>4 DEF Retry

\* The mail server takes a token that no other request knows.
LEMMA SendIInv == ASSUME IInv, NEW p \in Requests, Send(p) PROVE IInv'
<1>1. UNCHANGED <<account, tokens, window, bypassed, exposed>>
  BY DEF Send
<1>2. exposed' \subseteq Emails /\ ExposedOK'
  BY <1>1, ExposedKept
<1>3. CASE Done(p) /\ UNCHANGED mailed
  BY <1>1, <1>2, <1>3, DoneIInv
<1>4. CASE mailed' = mailed \cup {req[p].token} /\ Goto(p, "commit")
  <2>1. /\ req[p] \in Request /\ req[p].pc = "send" /\ req[p].op \in Issuing
        /\ req[p].token \in Tokens /\ LocalOK(p)
    BY DEF Send, IInv, TypeOK, LocalOK, ControlOK
  <2>2. /\ req' \in [Requests -> Request]
        /\ \A q \in Requests \ {p} : req'[q] = req[q]
        /\ req'[p].pc = "commit"
        /\ req'[p].rows = req[p].rows /\ req'[p].conflict = req[p].conflict
        /\ req'[p].op = req[p].op /\ req'[p].email = req[p].email
        /\ req'[p].role = req[p].role /\ req'[p].token = req[p].token
    BY <1>4, <2>1 DEF Goto, IInv, TypeOK, Request
  <2>3. ControlOK(p)' /\ TokenOK(p)' /\ SnapshotOK(p)'
    BY <1>1, <1>4, <2>1, <2>2 DEF LocalOK, ControlOK, TokenOK, SnapshotOK, InTx, Holds, Stored,
                                  Issuing, Consuming
  <2>4. AccountOK(p)' /\ LimiterOK(p)'
    BY <1>1, <2>1, <2>2 DEF LocalOK, AccountOK, LimiterOK, InTx, Holds, InsertsUser, Exists,
                            Active, Stored
  <2>5. ASSUME NEW q \in Requests \ {p}
        PROVE  ApartOK(p, q)' /\ ApartOK(q, p)' /\ req[q].token \notin {req[p].token}
    <3>1. req'[q] = req[q] /\ ApartOK(p, q) /\ ApartOK(q, p)
      BY <2>2 DEF IInv
    <3> QED
      BY <1>1, <2>1, <2>2, <3>1 DEF ApartOK, Holds, InsertsUser
  <2>6. {req[p].token} \in SUBSET Tokens
    BY <2>1
  <2> QED
    BY <1>1, <1>2, <1>4, <2>2, <2>3, <2>4, <2>5, <2>6, OwnStep DEF IInv, TypeOK, LocalOK
<1> QED
  BY <1>3, <1>4 DEF Send

\* A window ends only when no request needs it.
LEMMA WindowEndsIInv ==
    ASSUME IInv, NEW op \in Issuing, NEW e \in Emails, WindowEnds(op, e)
    PROVE  IInv'
<1>1. UNCHANGED <<account, tokens, req, mailed, bypassed, exposed>> /\ window' \subseteq window
  BY DEF WindowEnds
<1>2. /\ TypeOK' /\ StoredTokensWereMailed' /\ AtMostOneActive' /\ RowsOK' /\ ExposedOK'
  BY <1>1 DEF IInv, TypeOK, StoredTokensWereMailed, AtMostOneActive, Active, Stored, RowsOK,
              ExposedOK, Exists
<1>3. ASSUME NEW p \in Requests PROVE LocalOK(p)'
  <2>1. LocalOK(p)
    BY DEF IInv
  <2>2. ControlOK(p)' /\ TokenOK(p)' /\ SnapshotOK(p)' /\ AccountOK(p)'
    BY <1>1, <2>1 DEF LocalOK, ControlOK, TokenOK, SnapshotOK, AccountOK, InTx, Holds,
                      InsertsUser, Exists, Stored
  <2>3. LimiterOK(p)'
    BY <1>1, <2>1 DEF LocalOK, LimiterOK, InTx, Active, Stored, WindowEnds
  <2> QED
    BY <2>2, <2>3 DEF LocalOK
<1>4. ASSUME NEW p \in Requests, NEW q \in Requests, p # q PROVE ApartOK(p, q)'
  BY <1>1, <1>4 DEF IInv, ApartOK, Holds, InsertsUser
<1> QED
  BY <1>2, <1>3, <1>4 DEF IInv

-----------------------------------------------------------------------------
(* The commit, the one step that changes the tables.                       *)

\* What it does to the requests: p ends, and those that wait for one of its
\* rows learn of it.
LEMMA CommitRequests ==
    ASSUME IInv, NEW p \in Requests, Commit(p)
    PROVE  /\ req' \in [Requests -> Request]
           /\ req'[p] = Idle
           /\ \A q \in Requests \ {p} :
                /\ req'[q].pc = req[q].pc /\ req'[q].op = req[q].op
                /\ req'[q].email = req[q].email /\ req'[q].token = req[q].token
                /\ req'[q].role = req[q].role /\ req'[q].rows = req[q].rows
                /\ ~req'[q].conflict =>
                     /\ ~req[q].conflict
                     /\ req[q].pc = "lock" => req[q].rows \cap req[p].rows = {}
                /\ Holds(q) => req'[q] = req[q]
<1>1. req \in [Requests -> Request] /\ Idle \in Request
  BY DEF IInv, TypeOK, Idle, Request
<1>2. req' = [q \in Requests |->
                 IF q = p THEN Idle
                 ELSE IF req[q].pc = "lock" /\ req[q].rows \cap req[p].rows # {}
                 THEN [req[q] EXCEPT !.conflict = TRUE]
                 ELSE req[q]]
  BY DEF Commit
<1>3. \A q \in Requests : [req[q] EXCEPT !.conflict = TRUE] \in Request
  BY <1>1 DEF Request
<1>4. req' \in [Requests -> Request]
  BY <1>1, <1>2, <1>3
<1>5. ASSUME NEW q \in Requests \ {p}
      PROVE  /\ req'[q].pc = req[q].pc /\ req'[q].op = req[q].op
             /\ req'[q].email = req[q].email /\ req'[q].token = req[q].token
             /\ req'[q].role = req[q].role /\ req'[q].rows = req[q].rows
             /\ ~req'[q].conflict =>
                  /\ ~req[q].conflict
                  /\ req[q].pc = "lock" => req[q].rows \cap req[p].rows = {}
             /\ Holds(q) => req'[q] = req[q]
  BY <1>1, <1>2 DEF Request, Holds
<1> QED
  BY <1>2, <1>4, <1>5

\* What it does to the tokens: the rows of p are spent, and the token that p
\* issues appears.
LEMMA CommitTokens ==
    ASSUME IInv, NEW p \in Requests, Commit(p)
    PROVE  /\ Stored' = Stored \cup (IF req[p].op \in Issuing THEN {req[p].token} ELSE {})
           /\ \A t \in Stored :
                /\ tokens'[t].kind = tokens[t].kind /\ tokens'[t].email = tokens[t].email
                /\ tokens'[t].role = tokens[t].role
                /\ tokens'[t].used <=> tokens[t].used \/ t \in req[p].rows
           /\ req[p].op \in Issuing =>
                /\ req[p].token \notin Stored
                /\ tokens'[req[p].token].kind = KindOf(req[p].op)
                /\ tokens'[req[p].token].email = req[p].email
                /\ tokens'[req[p].token].role = req[p].role
                /\ ~tokens'[req[p].token].used
           /\ tokens' \in [Stored' -> TokenRow] /\ Stored' \subseteq Tokens
<1>1. /\ req[p] \in Request /\ req[p].pc = "commit" /\ req[p].op \in Ops
      /\ req[p].email \in Emails /\ req[p].token \in Tokens
      /\ req[p].op \in Issuing => req[p].token \notin Stored
  BY DEF Commit, IInv, TypeOK, LocalOK, ControlOK, TokenOK
<1>2. /\ Stored' = Stored \cup (IF req[p].op \in Issuing THEN {req[p].token} ELSE {})
      /\ \A t \in Stored : tokens'[t] = IF t \in req[p].rows
                                        THEN [tokens[t] EXCEPT !.used = TRUE] ELSE tokens[t]
      /\ req[p].op \in Issuing =>
           tokens'[req[p].token] = [kind |-> KindOf(req[p].op), email |-> req[p].email,
                                    role |-> req[p].role, used |-> FALSE]
      /\ tokens' = [t \in Stored' |-> tokens'[t]]
  BY <1>1 DEF Commit, Stored
<1>3. \A t \in Stored : tokens[t] \in TokenRow
  BY DEF IInv, TypeOK, Stored
<1>4. \A t \in Stored : tokens'[t] \in TokenRow
  BY <1>2, <1>3 DEF TokenRow
<1>5. KindOf(req[p].op) \in Kinds /\ req[p].role \in AdminRoles \cup {Nil}
  BY <1>1 DEF KindOf, Kinds, Ops, Issuing, Consuming, Request
<1>6. ASSUME req[p].op \in Issuing
      PROVE  /\ tokens'[req[p].token] \in TokenRow
             /\ tokens'[req[p].token].kind = KindOf(req[p].op)
             /\ tokens'[req[p].token].email = req[p].email
             /\ tokens'[req[p].token].role = req[p].role
             /\ ~tokens'[req[p].token].used
  <2> DEFINE row == [kind |-> KindOf(req[p].op), email |-> req[p].email,
                     role |-> req[p].role, used |-> FALSE]
  <2>1. row \in TokenRow
    BY <1>1, <1>5 DEF TokenRow
  <2>2. tokens'[req[p].token] = row
    BY <1>2, <1>6
  <2> QED
    BY <2>1, <2>2
<1>7. Stored' \subseteq Tokens
  BY <1>1, <1>2 DEF IInv, TypeOK, Stored
<1>8. tokens' \in [Stored' -> TokenRow]
  BY <1>2, <1>4, <1>6
<1>9. \A t \in Stored :
                /\ tokens'[t].kind = tokens[t].kind /\ tokens'[t].email = tokens[t].email
                /\ tokens'[t].role = tokens[t].role
                /\ tokens'[t].used <=> tokens[t].used \/ t \in req[p].rows
  BY <1>2, <1>3 DEF TokenRow
<1> QED
  BY <1>1, <1>2, <1>6, <1>7, <1>8, <1>9

\* What it does to the accounts: a registration or an acceptance makes one
\* where there was none, a confirmation activates one that is there.
LEMMA CommitAccounts ==
    ASSUME IInv, NEW p \in Requests, Commit(p)
    PROVE  /\ account' \in [Emails -> Account]
           /\ \A e \in Emails \ {req[p].email} : account'[e] = account[e]
           /\ req[p].op = "register" =>
                /\ ~Exists(req[p].email)
                /\ account'[req[p].email].status = "mail_unverified"
           /\ req[p].op = "verify" =>
                /\ Exists(req[p].email)
                /\ account'[req[p].email].status = "inactive"
                /\ account'[req[p].email].role = account[req[p].email].role
           /\ req[p].op = "accept" =>
                /\ ~Exists(req[p].email) /\ req[p].role \in AdminRoles
                /\ account'[req[p].email].status = "inactive"
                /\ account'[req[p].email].role = req[p].role
           /\ req[p].op \notin {"register", "verify", "accept"} => account' = account
<1>1. /\ req[p].pc = "commit" /\ req[p].op \in Ops /\ req[p].email \in Emails
      /\ account \in [Emails -> Account] /\ LocalOK(p)
  BY DEF Commit, IInv, TypeOK, LocalOK, ControlOK
<1>2. req[p].op \in {"register", "accept"} => ~Exists(req[p].email)
  BY <1>1 DEF LocalOK, AccountOK, Holds, InsertsUser
<1>3. req[p].op \in {"verify", "accept"} =>
        /\ req[p].token \in Stored
        /\ tokens[req[p].token].kind = KindOf(req[p].op)
        /\ tokens[req[p].token].email = req[p].email
        /\ tokens[req[p].token].role = req[p].role
  BY <1>1 DEF LocalOK, TokenOK, Consuming
<1>4. req[p].op = "verify" => Exists(req[p].email)
  BY <1>3 DEF IInv, RowsOK, KindOf
<1>5. req[p].op = "accept" => req[p].role \in AdminRoles
  BY <1>3 DEF IInv, RowsOK, KindOf
<1>6. /\ req[p].op = "register" => account' = Registered(req[p].email)
      /\ req[p].op = "verify" => account' = Verified(req[p].email)
      /\ req[p].op = "accept" => account' = Accepted(req[p].email, req[p].role)
      /\ req[p].op \notin {"register", "verify", "accept"} => account' = account
  BY DEF Commit
<1>7. account' \in [Emails -> Account] /\ \A e \in Emails \ {req[p].email} : account'[e] = account[e]
  BY <1>1, <1>5, <1>6 DEF Registered, Verified, Accepted, Account
<1>8. /\ req[p].op = "register" =>
           account'[req[p].email].status = "mail_unverified"
      /\ req[p].op = "verify" =>
           /\ account'[req[p].email].status = "inactive"
           /\ account'[req[p].email].role = account[req[p].email].role
      /\ req[p].op = "accept" =>
           /\ account'[req[p].email].status = "inactive"
           /\ account'[req[p].email].role = req[p].role
  BY <1>1, <1>6 DEF Registered, Verified, Accepted, Account
<1> QED
  BY <1>2, <1>4, <1>5, <1>6, <1>7, <1>8

\* An account that is there stays there, with its role; one appears only where
\* p inserts it.
LEMMA CommitKeepsAccounts ==
    ASSUME IInv, NEW p \in Requests, Commit(p), NEW e \in Emails
    PROVE  /\ Exists(e) => account'[e].status # "none" /\ account'[e].role = account[e].role
           /\ account'[e].status # "none" /\ ~Exists(e) => InsertsUser(p) /\ e = req[p].email
<1>1. CASE e # req[p].email
  BY <1>1, CommitAccounts DEF Exists
<1>2. CASE e = req[p].email
  BY <1>2, CommitAccounts DEF Exists, InsertsUser
<1> QED
  BY <1>1, <1>2

\* The valid tokens afterwards are those that p did not mark, and its own.
LEMMA CommitActive ==
    ASSUME IInv, NEW p \in Requests, Commit(p), NEW kind \in Kinds, NEW e \in Emails,
           NEW t \in Active(kind, e)'
    PROVE  \/ t \in Active(kind, e) /\ t \notin req[p].rows
           \/ /\ req[p].op \in Issuing /\ t = req[p].token
              /\ KindOf(req[p].op) = kind /\ req[p].email = e
<1>1. t \in Stored' /\ tokens'[t].kind = kind /\ tokens'[t].email = e /\ ~tokens'[t].used
  BY DEF Active
<1>2. CASE t \in Stored
  BY <1>1, <1>2, CommitTokens DEF Active
<1>3. CASE t \notin Stored
  BY <1>1, <1>3, CommitTokens
<1> QED
  BY <1>2, <1>3

\* What the commit of an issuing request finds of older tokens, it replaces.
LEMMA CommitReplaces ==
    ASSUME IInv, NEW p \in Requests, Commit(p), req[p].op \in Issuing, ~bypassed
    PROVE  Active(KindOf(req[p].op), req[p].email) \subseteq req[p].rows
<1>1. req[p].pc = "commit" /\ LimiterOK(p)
  BY DEF Commit, IInv, LocalOK
<1>2. CASE req[p].op = "register"
  <2>1. ~Exists(req[p].email) /\ KindOf(req[p].op) = "confirm"
    BY <1>2, CommitAccounts DEF KindOf
  <2> QED
    BY <2>1 DEF Active, IInv, RowsOK
<1>3. CASE req[p].op # "register"
  BY <1>1, <1>3 DEF LimiterOK, InTx
<1> QED
  BY <1>2, <1>3

\* The invariant of the tables survives a commit.
LEMMA CommitTables ==
    ASSUME IInv, NEW p \in Requests, Commit(p)
    PROVE  TypeOK' /\ StoredTokensWereMailed' /\ AtMostOneActive' /\ RowsOK' /\ ExposedOK'
<1>1. UNCHANGED <<window, mailed, bypassed, exposed>> /\ req[p].pc = "commit" /\ req[p].email \in Emails
  BY DEF Commit, IInv, LocalOK, ControlOK
<1>2. TypeOK'
  BY <1>1, CommitRequests, CommitTokens, CommitAccounts DEF IInv, TypeOK, Stored
<1>3. StoredTokensWereMailed'
  <2>1. req[p].op \in Issuing => req[p].token \in mailed
    BY <1>1 DEF IInv, LocalOK, TokenOK
  <2> QED
    BY <1>1, <2>1, CommitTokens DEF IInv, StoredTokensWereMailed
<1>4. AtMostOneActive'
  <2> SUFFICES ASSUME ~bypassed, NEW e \in Emails, NEW kind \in Kinds,
                      NEW s \in Active(kind, e)', NEW t \in Active(kind, e)'
               PROVE  s = t
    BY <1>1 DEF AtMostOneActive
  <2>1. CASE req[p].op \in Issuing /\ KindOf(req[p].op) = kind /\ req[p].email = e
    BY <2>1, CommitActive, CommitReplaces
  <2>2. CASE ~(req[p].op \in Issuing /\ KindOf(req[p].op) = kind /\ req[p].email = e)
    BY <2>2, CommitActive DEF IInv, AtMostOneActive
  <2> QED
    BY <2>1, <2>2
<1>5. RowsOK'
  <2> SUFFICES ASSUME NEW t \in Stored'
               PROVE  /\ tokens'[t].kind = "confirm" => account'[tokens'[t].email].status # "none"
                      /\ tokens'[t].kind = "invite" => tokens'[t].role \in AdminRoles
    BY DEF RowsOK, Exists
  <2>1. CASE t \in Stored
    <3>1. tokens'[t].kind = tokens[t].kind /\ tokens'[t].email = tokens[t].email
          /\ tokens'[t].role = tokens[t].role
      BY <2>1, CommitTokens
    <3>2. tokens[t].email \in Emails
      BY <2>1 DEF IInv, TypeOK, TokenRow, Stored
    <3> QED
      BY <2>1, <3>1, <3>2, CommitKeepsAccounts DEF IInv, RowsOK, Exists
  <2>2. CASE t \notin Stored
    <3>1. /\ req[p].op \in Issuing /\ tokens'[t].kind = KindOf(req[p].op)
          /\ tokens'[t].email = req[p].email /\ tokens'[t].role = req[p].role
      BY <2>2, CommitTokens
    <3>2. req[p].op = "register" => account'[req[p].email].status # "none"
      BY <1>1, CommitAccounts
    <3>3. req[p].op = "resend" => account'[req[p].email].status # "none"
      BY <1>1, CommitKeepsAccounts DEF IInv, LocalOK, AccountOK
    <3>4. req[p].op = "invite" => req[p].role \in AdminRoles
      BY DEF IInv, LocalOK, ControlOK
    <3> QED
      BY <3>1, <3>2, <3>3, <3>4 DEF KindOf, Issuing
  <2> QED
    BY <2>1, <2>2
<1>6. ExposedOK'
  BY <1>1, CommitKeepsAccounts DEF IInv, TypeOK, ExposedOK, Exists
<1> QED
  BY <1>2, <1>3, <1>4, <1>5, <1>6

\* The other requests find what they counted on.
LEMMA CommitOthers ==
    ASSUME IInv, NEW p \in Requests, Commit(p), NEW q \in Requests \ {p}
    PROVE  LocalOK(q)'
<1>1. /\ req'[q].pc = req[q].pc /\ req'[q].op = req[q].op
      /\ req'[q].email = req[q].email /\ req'[q].token = req[q].token
      /\ req'[q].role = req[q].role /\ req'[q].rows = req[q].rows
      /\ ~req'[q].conflict =>
           /\ ~req[q].conflict
           /\ req[q].pc = "lock" => req[q].rows \cap req[p].rows = {}
      /\ Holds(q) => req'[q] = req[q]
  BY CommitRequests
<1>2. LocalOK(q) /\ ApartOK(p, q) /\ ApartOK(q, p) /\ Holds(p) /\ req[p].email \in Emails
  BY DEF Commit, IInv, Holds, LocalOK, ControlOK
<1>3. UNCHANGED <<window, mailed, bypassed, exposed>>
  BY DEF Commit
<1>4. ControlOK(q)'
  BY <1>1, <1>2 DEF LocalOK, ControlOK
<1>5. TokenOK(q)'
  <2>1. req[q].op \in Issuing /\ req[q].pc # "look" => req[q].token # Nil
    BY <1>2 DEF LocalOK, ControlOK, Issuing
  <2> QED
    BY <1>1, <1>2, <1>3, <2>1, CommitTokens DEF LocalOK, TokenOK, ApartOK
<1>6. SnapshotOK(q)'
  <2>1. Holds(q)' => ~req'[q].conflict
    BY <1>1, <1>2 DEF LocalOK, SnapshotOK, Holds
  <2>2. req[q].op \in Consuming /\ InTx(q) => req[q].token \in req[q].rows
    BY <1>2 DEF LocalOK, SnapshotOK
  <2>3. ASSUME req[q].op \in Consuming, InTx(q), ~req'[q].conflict
        PROVE  ~tokens'[req[q].token].used
    <3>1. req[q].token \in Stored /\ ~tokens[req[q].token].used /\ req[q].token \in req[q].rows
      BY <1>1, <1>2, <2>3 DEF LocalOK, SnapshotOK, TokenOK
    <3>2. req[q].rows \cap req[p].rows = {}
      BY <1>1, <1>2, <2>3 DEF InTx, Holds, ApartOK
    <3> QED
      BY <3>1, <3>2, CommitTokens
  <2> QED
    BY <1>1, <2>1, <2>2, <2>3 DEF SnapshotOK, InTx
<1>7. AccountOK(q)'
  <2>1. req[q].op = "resend" /\ req[q].pc # "look" => account'[req[q].email].status # "none"
    BY <1>2, CommitKeepsAccounts DEF LocalOK, ControlOK, AccountOK, Issuing
  <2>2. Holds(q) /\ InsertsUser(q) => account'[req[q].email].status = "none"
    <3>1. Holds(q) => req[q].email \in Emails
      BY <1>2 DEF LocalOK, ControlOK, Holds
    <3> QED
      BY <1>2, <3>1, CommitKeepsAccounts DEF LocalOK, AccountOK, ApartOK
  <2>3. ASSUME ~bypassed, req[q].op = "register", req[q].pc # "look",
               account'[req[q].email].status # "none"
        PROVE  account'[req[q].email].role \in AdminRoles
    <3>1. req[q].email \in Emails
      BY <1>2, <2>3 DEF LocalOK, ControlOK, Issuing
    <3>2. CASE Exists(req[q].email)
      BY <1>2, <2>3, <3>1, <3>2, CommitKeepsAccounts DEF LocalOK, AccountOK
    <3>3. CASE ~Exists(req[q].email)
      <4>1. InsertsUser(p) /\ req[q].email = req[p].email
        BY <2>3, <3>1, <3>3, CommitKeepsAccounts
      <4>2. req[p].op = "accept"
        BY <1>2, <2>3, <4>1 DEF ApartOK, InsertsUser, Issuing
      <4> QED
        BY <4>1, <4>2, CommitAccounts
    <3> QED
      BY <3>2, <3>3
  <2> QED
    BY <1>1, <1>3, <2>1, <2>2, <2>3 DEF AccountOK, Holds, InsertsUser, Exists
<1>8. LimiterOK(q)'
  <2> SUFFICES ASSUME ~bypassed, req[q].op \in Issuing
               PROVE  LimiterOK(q)'
    BY <1>1, <1>3 DEF LimiterOK
  <2>1. PICK e \in Emails, kind \in Kinds : e = req[q].email /\ kind = KindOf(req[q].op)
    BY <1>2 DEF LocalOK, ControlOK, KindOf, Kinds, Issuing
  <2>2. <<req[q].op, req[q].email>> \in window
    BY <1>2 DEF LocalOK, LimiterOK
  <2>3. ASSUME req[q].op # "register", InTx(q), NEW t \in Active(kind, e)'
        PROVE  t \in req[q].rows
    <3>1. CASE t \in Active(kind, e)
      BY <1>2, <2>1, <2>3, <3>1 DEF LocalOK, LimiterOK
    <3>2. CASE req[p].op \in Issuing /\ KindOf(req[p].op) = kind /\ req[p].email = e
      <4>1. req[p].op # req[q].op
        BY <1>2, <2>1, <3>2 DEF ApartOK
      <4>2. req[p].op = "register" /\ req[q].op = "resend"
        BY <2>1, <2>3, <3>2, <4>1 DEF KindOf, Issuing
      <4>3. ~Exists(req[p].email)
        BY <4>2, CommitAccounts
      <4>4. Exists(req[q].email)
        BY <1>2, <2>3, <4>2 DEF LocalOK, AccountOK, InTx
      <4> QED
        BY <2>1, <3>2, <4>3, <4>4
    <3> QED
      BY <2>3, <3>1, <3>2, CommitActive
  <2>4. /\ Active(KindOf(req[q].op), req[q].email)' = Active(kind, e)'
        /\ InTx(q)' <=> InTx(q)
    BY <1>1, <2>1 DEF Active, InTx
  <2> QED
    BY <1>1, <1>3, <2>2, <2>3, <2>4 DEF LimiterOK
<1> QED
  BY <1>4, <1>5, <1>6, <1>7, <1>8 DEF LocalOK

\* So the invariant survives a commit.
LEMMA CommitIInv == ASSUME IInv, NEW p \in Requests, Commit(p) PROVE IInv'
<1>1. req'[p] = Idle /\ UNCHANGED bypassed
  BY CommitRequests DEF Commit
<1>2. LocalOK(p)'
  BY <1>1 DEF LocalOK, ControlOK, TokenOK, SnapshotOK, AccountOK, LimiterOK, InTx, Holds, Idle,
              Issuing, Consuming
<1>3. ASSUME NEW q \in Requests, NEW s \in Requests, q # s PROVE ApartOK(q, s)'
  <2>1. CASE q = p \/ s = p
    BY <1>1, <2>1 DEF ApartOK, Holds, Idle, Issuing
  <2>2. CASE q # p /\ s # p
    <3>1. ApartOK(q, s)
      BY <1>3 DEF IInv
    <3> QED
      BY <1>1, <2>2, <3>1, CommitRequests DEF ApartOK, Holds, InsertsUser
  <2> QED
    BY <2>1, <2>2
<1> QED
  BY <1>2, <1>3, CommitTables, CommitOthers DEF IInv

-----------------------------------------------------------------------------
\* Every step keeps the invariant.
LEMMA NextIInv == IInv /\ [Next]_vars => IInv'
<1> SUFFICES ASSUME IInv, [Next]_vars PROVE IInv'
  OBVIOUS
<1>1. CASE UNCHANGED vars
  <2>1. ASSUME NEW p \in Requests PROVE LocalOK(p)'
    BY <1>1 DEF vars, IInv, LocalOK, ControlOK, TokenOK, SnapshotOK, AccountOK, LimiterOK, InTx,
                Holds, InsertsUser, Exists, Active, Stored
  <2> QED
    BY <1>1, <2>1 DEF vars, IInv, TypeOK, StoredTokensWereMailed, AtMostOneActive, RowsOK, ExposedOK,
                      ApartOK, Holds, InsertsUser, Exists, Active, Stored
<1>2. ASSUME NEW p \in Requests, Call(p) PROVE IInv'
  <2>1. ASSUME NEW e \in Emails,
               \/ RegisterAccount(p, e) \/ ResendEmailVerification(p, e)
               \/ RequestPasswordReset(p, e) \/ \E role \in AdminRoles : InviteAdmin(p, e, role)
        PROVE  IInv'
    BY <2>1, AllowIInv DEF RegisterAccount, ResendEmailVerification, RequestPasswordReset,
                           InviteAdmin, Issuing
  <2>2. ASSUME NEW t \in Tokens,
               VerifyEmail(p, t) \/ ConfirmPasswordReset(p, t) \/ AcceptInvitation(p, t)
        PROVE  IInv'
    BY <2>2, PresentIInv DEF VerifyEmail, ConfirmPasswordReset, AcceptInvitation, Consuming
  <2> QED
    BY <1>2, <2>1, <2>2 DEF Call
<1>3. ASSUME NEW p \in Requests, Step(p) PROVE IInv'
  BY <1>3, LookIInv, BeginIInv, LockIInv, EmailTakenIInv, RetryIInv, SendIInv, CommitIInv DEF Step
<1>4. ASSUME NEW p \in Requests, Abort(p) PROVE IInv'
  BY <1>4, DoneIInv, ExposedKept DEF Abort
<1>5. ASSUME NEW op \in Issuing, NEW e \in Emails, WindowEnds(op, e) PROVE IInv'
  BY <1>5, WindowEndsIInv
<1> QED
  BY <1>1, <1>2, <1>3, <1>4, <1>5 DEF Next

\* The invariant holds throughout.
LEMMA Invariant == Spec => []IInv
BY InitIInv, NextIInv, PTL DEF Spec

-----------------------------------------------------------------------------
(* What follows.                                                           *)

\* Tables, windows and requests are well typed in every reachable state.
THEOREM TypeCorrect == Spec => []TypeOK
BY Invariant, PTL DEF IInv

\* FR-02, FR-04: a stored token was mailed, for any number of requests that
\* RegisterAccount, ResendEmailVerification and the others run at once.
THEOREM StoredAreMailed == Spec => []StoredTokensWereMailed
BY Invariant, PTL DEF IInv

\* CND-10, CND-18, CND-19: the limiter and the invalidating UPDATE together
\* leave one valid token of a kind to an address.
THEOREM OneActiveAtMost == Spec => []AtMostOneActive
BY Invariant, PTL DEF IInv

\* FR-01: CreateUser's unmapped unique violation shows an address only to a
\* registration that an acceptance overtook.
THEOREM ExposesOnlyInvited == Spec => []RegistrationExposesOnlyInvited
<1>1. IInv => RegistrationExposesOnlyInvited
  BY DEF IInv, ExposedOK, RegistrationExposesOnlyInvited
<1> QED
  BY <1>1, Invariant, PTL

\* Only a commit changes accounts and tokens.
LEMMA OnlyCommits ==
    ASSUME [Next]_vars, ~\E p \in Requests : Commit(p)
    PROVE  UNCHANGED <<account, tokens>>
BY DEF Next, vars, Call, Step, Abort, RegisterAccount, ResendEmailVerification,
       RequestPasswordReset, InviteAdmin, Allow, VerifyEmail, ConfirmPasswordReset,
       AcceptInvitation, Present, Look, BeginTx, Lock, EmailTaken, Retry, Send, WindowEnds

\* A committing consumer spends a mailed token that was unused until then.
LEMMA CommitSpends ==
    ASSUME IInv, NEW p \in Requests, Commit(p), req[p].op \in Consuming
    PROVE  /\ req[p].token \in Stored \cap mailed
           /\ tokens[req[p].token].kind = KindOf(req[p].op)
           /\ tokens[req[p].token].email = req[p].email
           /\ tokens[req[p].token].role = req[p].role
           /\ ~tokens[req[p].token].used /\ tokens'[req[p].token].used
<1>1. req[p].pc = "commit" /\ Holds(p) /\ InTx(p) /\ TokenOK(p) /\ SnapshotOK(p)
  BY DEF Commit, IInv, LocalOK, Holds, InTx
<1>2. req[p].token \in Stored \cap mailed
  BY <1>1 DEF TokenOK, IInv, StoredTokensWereMailed
<1>3. ~tokens[req[p].token].used /\ req[p].token \in req[p].rows
  BY <1>1 DEF SnapshotOK
<1> QED
  BY <1>1, <1>2, <1>3, CommitTokens DEF TokenOK

\* FR-03, FR-13: VerifyEmail and AcceptInvitation are the only ways in, and
\* each spends its token.
THEOREM EntersByToken == Spec => EnteredByToken
<1> DEFINE Enters(e) ==
      account'[e].status = "inactive" /\ account[e].status # "inactive" =>
           \E t \in Stored \cap mailed :
             /\ tokens[t].email = e
             /\ ~tokens[t].used /\ tokens'[t].used
             /\ IF Exists(e)
                THEN tokens[t].kind = "confirm" /\ account'[e].role = account[e].role
                ELSE tokens[t].kind = "invite" /\ account'[e].role = tokens[t].role
<1>1. ASSUME IInv, NEW p \in Requests, Commit(p), NEW e \in Emails,
             account'[e].status = "inactive", account[e].status # "inactive"
      PROVE  \E t \in Stored \cap mailed :
               /\ tokens[t].email = e
               /\ ~tokens[t].used /\ tokens'[t].used
               /\ IF Exists(e)
                  THEN tokens[t].kind = "confirm" /\ account'[e].role = account[e].role
                  ELSE tokens[t].kind = "invite" /\ account'[e].role = tokens[t].role
  <2>1. e = req[p].email /\ req[p].op \in {"verify", "accept"}
    BY <1>1, CommitAccounts
  <2>2. /\ req[p].token \in Stored \cap mailed
        /\ tokens[req[p].token].kind = KindOf(req[p].op)
        /\ tokens[req[p].token].email = req[p].email
        /\ tokens[req[p].token].role = req[p].role
        /\ ~tokens[req[p].token].used /\ tokens'[req[p].token].used
    BY <1>1, <2>1, CommitSpends DEF Consuming
  <2>3. IF Exists(e)
        THEN tokens[req[p].token].kind = "confirm" /\ account'[e].role = account[e].role
        ELSE tokens[req[p].token].kind = "invite" /\ account'[e].role = tokens[req[p].token].role
    BY <1>1, <2>1, <2>2, CommitAccounts DEF KindOf
  <2> QED
    BY <2>1, <2>2, <2>3
<1>2. IInv /\ [Next]_vars => [\A e \in Emails : Enters(e)]_vars
  BY <1>1, OnlyCommits
<1> QED
  BY <1>2, Invariant, PTL DEF Spec, EnteredByToken

\* CND-11: an account keeps its role, does not vanish and stays activated.
THEOREM NeverTakenOver == Spec => AccountsAreNotTakenOver
<1> DEFINE Keeps(e) ==
      Exists(e) =>
         /\ account'[e].role = account[e].role
         /\ account'[e].status # "none"
         /\ account[e].status = "inactive" => account'[e].status = "inactive"
<1>1. ASSUME IInv, NEW p \in Requests, Commit(p), NEW e \in Emails PROVE Keeps(e)
  <2>1. CASE e # req[p].email
    BY <1>1, <2>1, CommitAccounts DEF Exists
  <2>2. CASE e = req[p].email
    BY <1>1, <2>2, CommitAccounts DEF Exists
  <2> QED
    BY <2>1, <2>2
<1>2. IInv /\ [Next]_vars => [\A e \in Emails : Keeps(e)]_vars
  BY <1>1, OnlyCommits DEF Exists
<1> QED
  BY <1>2, Invariant, PTL DEF Spec, AccountsAreNotTakenOver

-----------------------------------------------------------------------------
(* The refinement.                                                         *)

\* At the start no token is known and nobody has an account.
LEMMA LifeInit == Init => Life!Init
BY DEF Init, Life!Init, LifeOf, Entered, Stored, NoAccount

\* The mail server takes a token: Deliver.
LEMMA SendDelivers ==
    ASSUME IInv, NEW p \in Requests, Send(p)
    PROVE  [Life!Next]_Life!vars
<1>1. CASE UNCHANGED mailed
  BY <1>1 DEF Send, Life!vars, LifeOf, Entered, Stored
<1>2. CASE mailed' = mailed \cup {req[p].token}
  <2>1. /\ req[p].token \in Tokens /\ req[p].token \notin Stored
        /\ req[p].token \notin mailed
    BY DEF Send, IInv, LocalOK, ControlOK, TokenOK
  <2>2. PICK t \in Tokens : t = req[p].token
    BY <2>1
  <2>3. UNCHANGED <<account, tokens>>
    BY DEF Send
  <2>4. LifeOf(t) = "unknown" /\ LifeOf(t)' = "mailed"
    BY <1>2, <2>1, <2>2, <2>3 DEF LifeOf, Stored
  <2>5. \A s \in Tokens \ {t} : LifeOf(s)' = LifeOf(s)
    BY <1>2, <2>2, <2>3 DEF LifeOf, Stored
  <2>6. Entered' = Entered
    BY <2>3 DEF Entered
  <2>7. Life!Deliver(t)
    BY <2>4, <2>5, <2>6 DEF Life!Deliver
  <2> QED
    BY <2>7 DEF Life!Next
<1> QED
  BY <1>1, <1>2 DEF Send

\* A commit stores the token it issues or spends the one it consumes.
LEMMA CommitStoresOrSpends ==
    ASSUME IInv, NEW p \in Requests, Commit(p)
    PROVE  Life!Next
<1>1. PICK t \in Tokens, e \in Emails : t = req[p].token /\ e = req[p].email
  BY DEF Commit, IInv, LocalOK, ControlOK
<1>2. req[p].op \in Ops /\ UNCHANGED mailed
  BY DEF Commit, IInv, LocalOK, ControlOK
<1>3. \A s \in Tokens \ {t} : \/ LifeOf(s)' = LifeOf(s)
                              \/ LifeOf(s) = "valid" /\ LifeOf(s)' = "spent"
  BY <1>1, <1>2, CommitTokens DEF LifeOf
<1>4. CASE req[p].op \in Issuing
  <2>1. LifeOf(t) = "mailed" /\ LifeOf(t)' = "valid"
    <3>1. t \in mailed
      BY <1>1, <1>4 DEF Commit, IInv, LocalOK, TokenOK
    <3> QED
      BY <1>1, <1>4, <3>1, CommitTokens DEF LifeOf
  <2>2. Entered' = Entered
    <3>1. \A f \in Emails : account'[f].status = "inactive" <=> account[f].status = "inactive"
      BY <1>4, CommitAccounts DEF Issuing, Exists
    <3> QED
      BY <3>1 DEF Entered
  <2>3. Life!Store(t)
    BY <1>3, <2>1, <2>2 DEF Life!Store, Life!Kept
  <2> QED
    BY <2>3 DEF Life!Next
<1>5. CASE req[p].op \in Consuming
  <2>1. LifeOf(t) = "valid" /\ LifeOf(t)' = "spent"
    BY <1>1, <1>5, CommitSpends, CommitTokens DEF LifeOf
  <2>2. Entered' = Entered \/ Entered' = Entered \cup {e}
    <3>1. \A f \in Emails \ {e} : account'[f] = account[f]
      BY <1>1, CommitAccounts
    <3>2. account[e].status = "inactive" => account'[e].status = "inactive"
      BY <1>1, <1>5, CommitAccounts DEF Consuming, Exists
    <3> QED
      BY <3>1, <3>2 DEF Entered
  <2>3. Life!Spend(t)
    BY <1>3, <2>1, <2>2 DEF Life!Spend, Life!Kept, Life!Valid
  <2> QED
    BY <2>3 DEF Life!Next
<1> QED
  BY <1>2, <1>4, <1>5 DEF Ops

\* Every other step leaves tokens, mails and accounts alone.
LEMMA LifeStutters ==
    ASSUME [Next]_vars, ~\E p \in Requests : Commit(p) \/ Send(p)
    PROVE  UNCHANGED Life!vars
<1>1. UNCHANGED <<account, tokens, mailed>>
  BY DEF Next, vars, Call, Step, Abort, RegisterAccount, ResendEmailVerification,
         RequestPasswordReset, InviteAdmin, Allow, VerifyEmail, ConfirmPasswordReset,
         AcceptInvitation, Present, Look, BeginTx, Lock, EmailTaken, Retry, WindowEnds
<1> QED
  BY <1>1 DEF Life!vars, LifeOf, Entered, Stored

\* FR-02 to FR-13: Onboarding implements TokenLife for any number of addresses,
\* tokens and concurrent requests.
THEOREM ImplementsTokenLife == Spec => TokensLiveOnce
<1>1. IInv /\ [Next]_vars => [Life!Next]_Life!vars
  BY SendDelivers, CommitStoresOrSpends, LifeStutters
<1> QED
  BY <1>1, LifeInit, Invariant, PTL DEF Spec, TokensLiveOnce, Life!Spec
=============================================================================
