------------------------- MODULE AuthServiceTyping -------------------------
(***************************************************************************)
(* Type correctness of AuthService, proved for every value of its          *)
(* constants, with the lemmas on how a step of one request affects the     *)
(* local state of the others.                                              *)
(***************************************************************************)
EXTENDS AuthService, TLAPS

USE MaxTriesAssumption

TokenPCs == {"revoke_one", "family_begin", "family_update", "refresh_user",
             "rotate_begin", "rotate_commit"}

\* The local variables that a handler has set when it is at a given place,
\* where S is the set of stored tokens.
LocalOK(r, S) ==
    /\ r.pc = "login_save" => r.user \in Users /\ r.password \in Passwords
    /\ r.pc \in TokenPCs => r.token \in S
    /\ r.pc \in {"change_begin", "change_commit", "confirm_begin", "confirm_commit"}
         => r.user \in Users /\ r.password \in Passwords
    /\ r.pc \in {"confirm_begin", "confirm_commit"} => r.reset \in Resets
    /\ r.pc \in {"disable_begin", "disable_commit", "reactivate_update"}
         => r.user \in Users
    /\ r.pc \notin TxPCs => r.tries < MaxTries

Typed ==
    /\ TypeOK
    /\ \A p \in Requests : LocalOK(req[p], Stored)

-----------------------------------------------------------------------------
(* What a step of one request does to the local state of the others.       *)

Same(a, b) ==
    /\ a.pc = b.pc
    /\ a.user = b.user
    /\ a.token = b.token
    /\ a.reset = b.reset
    /\ a.password = b.password
    /\ a.rows = b.rows
    /\ a.tries = b.tries

\* The requests outside P keep their local state, except that a transaction
\* may learn of a conflict, and must if it holds a row of W.
Frame(P, W) ==
    \A q \in Requests \ P :
        /\ Same(req[q], req'[q])
        /\ ~req'[q].conflict =>
             /\ ~req[q].conflict
             /\ req[q].pc \in TxPCs => req[q].rows \cap W = {}

\* A request that has ended is a request record.
LEMMA IdleIsRequest == Idle \in Request
BY DEF Idle, Request, PCs

\* What LocalOK says of a request stays true when its control point, token,
\* user and reset stay and the table of tokens only grows.
LEMMA LocalKept ==
    ASSUME NEW a \in Request, NEW b \in Request, NEW S, NEW S2,
           Same(a, b), S \subseteq S2, LocalOK(a, S)
    PROVE  LocalOK(b, S2)
BY DEF Same, LocalOK

\* A request that has ended names no token and no user.
LEMMA IdleIsLocal == ASSUME NEW S PROVE LocalOK(Idle, S)
BY DEF Idle, LocalOK, TokenPCs, TxPCs

\* A commit changes nothing of the other requests but their conflict flag.
LEMMA CommittedFrame ==
    ASSUME req \in [Requests -> Request], NEW p \in Requests, NEW W,
           Committed(p, W)
    PROVE  /\ req' \in [Requests -> Request]
           /\ req'[p] = Idle
           /\ Frame({p}, W)
<1>1. req' \in [Requests -> Request]
  BY IdleIsRequest DEF Committed, Request
<1>2. req'[p] = Idle
  BY DEF Committed
<1>3. Frame({p}, W)
  BY DEF Committed, Frame, Same, Request
<1> QED
  BY <1>1, <1>2, <1>3

\* A request that moves leaves the other requests alone, so that types and
\* LocalOK have to be checked for the new record only.
LEMMA MoveFrame ==
    ASSUME req \in [Requests -> Request], NEW p \in Requests, NEW r \in Request,
           req' = [req EXCEPT ![p] = r]
    PROVE  /\ req' \in [Requests -> Request]
           /\ req'[p] = r
           /\ Frame({p}, {})
BY DEF Frame, Same

\* A step of request p keeps the local state typed if p's own is.
LEMMA LocalStep ==
    ASSUME Typed, NEW p \in Requests, NEW W,
           req' \in [Requests -> Request], Frame({p}, W),
           Stored \subseteq Stored', LocalOK(req'[p], Stored')
    PROVE  \A q \in Requests : LocalOK(req'[q], Stored')
<1> TAKE q \in Requests
<1>1. CASE q = p
  BY <1>1
<1>2. CASE q # p
  <2>1. Same(req[q], req'[q])
    BY <1>2 DEF Frame
  <2>2. req[q] \in Request /\ req'[q] \in Request /\ LocalOK(req[q], Stored)
    BY DEF Typed, TypeOK
  <2> QED
    BY <2>1, <2>2, LocalKept
<1> QED
  BY <1>1, <1>2

-----------------------------------------------------------------------------
(* Typing.                                                                 *)

\* The revoking UPDATEs keep the type and the keys of refresh_tokens.
LEMMA RevokeTyped ==
    ASSUME TypeOK, NEW S, NEW reason \in Reasons \cup {Nil}, RevokeTokens(S, reason)
    PROVE  tokens' \in [Stored -> TokenRow] /\ Stored' = Stored
<1>1. Stored' = Stored
  BY DEF RevokeTokens, Stored
<1>2. ASSUME NEW t \in Stored
      PROVE  [tokens[t] EXCEPT !.revoked = TRUE, !.reason = reason] \in TokenRow
  BY DEF TypeOK, TokenRow, Stored
<1>3. tokens' \in [Stored -> TokenRow]
  BY <1>2 DEF RevokeTokens, TypeOK, Stored
<1> QED
  BY <1>1, <1>3

\* An INSERT extends a table by a well-typed row.
LEMMA InsertTyped ==
    ASSUME NEW S, NEW T, NEW f \in [S -> T], NEW id, NEW row \in T
    PROVE  /\ Inserted(f, id, row) \in [S \cup {id} -> T]
           /\ DOMAIN Inserted(f, id, row) = S \cup {id}
BY DEF Inserted

\* The first call of a request: the tables stay, p gets the local state r.
LEMMA StartTyped ==
    ASSUME Typed, NEW p \in Requests, NEW c, NEW r \in Request,
           Start(p, c, r), LocalOK(r, Stored),
           UNCHANGED <<users, tokens, resets, expired, opened>>
    PROVE  Typed'
<1>1. req \in [Requests -> Request] /\ req' = [req EXCEPT ![p] = r]
  BY DEF Typed, TypeOK, Start
<1>2. req' \in [Requests -> Request] /\ req'[p] = r /\ Frame({p}, {})
  BY <1>1, MoveFrame
<1>3. Stored' = Stored
  BY DEF Stored
<1>4. TypeOK'
  BY <1>2 DEF Typed, TypeOK
<1>5. \A q \in Requests : LocalOK(req'[q], Stored')
  BY <1>2, <1>3, LocalStep
<1> QED
  BY <1>4, <1>5 DEF Typed

\* A step that changes only the local state of p.
LEMMA MoveTyped ==
    ASSUME Typed, NEW p \in Requests, NEW r \in Request,
           req' = [req EXCEPT ![p] = r], LocalOK(r, Stored),
           UNCHANGED <<users, tokens, resets, expired, opened>>
    PROVE  Typed'
<1>1. req' \in [Requests -> Request] /\ req'[p] = r /\ Frame({p}, {})
  BY MoveFrame DEF Typed, TypeOK
<1>2. Stored' = Stored
  BY DEF Stored
<1>3. TypeOK'
  BY <1>1 DEF Typed, TypeOK
<1>4. \A q \in Requests : LocalOK(req'[q], Stored')
  BY <1>1, <1>2, LocalStep
<1> QED
  BY <1>3, <1>4 DEF Typed

\* The last call of a request: p becomes idle.
LEMMA CommittedTyped ==
    ASSUME Typed, NEW p \in Requests, NEW W, Committed(p, W),
           users' \in [Users -> UserRow], resets' \in [Resets -> ResetRow],
           Stored \subseteq Stored', Stored' \subseteq Tokens,
           tokens' \in [Stored' -> TokenRow],
           opened' \in [Stored' -> Passwords], UNCHANGED expired
    PROVE  Typed'
<1>1. req' \in [Requests -> Request] /\ req'[p] = Idle /\ Frame({p}, W)
  BY CommittedFrame DEF Typed, TypeOK
<1>2. TypeOK'
  BY <1>1 DEF Typed, TypeOK, Stored
<1>3. \A q \in Requests : LocalOK(req'[q], Stored')
  BY <1>1, IdleIsLocal, LocalStep
<1> QED
  BY <1>2, <1>3 DEF Typed

\* BeginTx keeps the types when the attempts are not used up.
LEMMA BeginTxTyped ==
    ASSUME Typed, NEW p \in Requests, NEW pc \in TxPCs,
           NEW rows \in SUBSET (Users \cup Tokens \cup Resets),
           req[p].pc \notin TxPCs, BeginTx(p, pc, rows),
           LocalOK([req[p] EXCEPT !.pc = pc], Stored),
           UNCHANGED <<users, tokens, resets, expired, opened>>
    PROVE  Typed'
<1> DEFINE n == req[p].tries + 1
           r == [req[p] EXCEPT !.pc = pc, !.rows = rows, !.conflict = FALSE,
                               !.tries = n]
<1>1. req[p] \in Request /\ req[p].tries < MaxTries /\ LocalOK(req[p], Stored)
  BY DEF Typed, TypeOK, LocalOK
<1>2. r \in Request
  <2>1. n \in 0 .. MaxTries
    BY <1>1 DEF Request
  <2> HIDE DEF n
  <2> QED
    BY <1>1, <2>1 DEF Request, PCs
<1>3. LocalOK(r, Stored)
  BY <1>1 DEF LocalOK, Request
<1>4. req' = [req EXCEPT ![p] = r]
  BY DEF BeginTx
<1> QED
  BY <1>2, <1>3, <1>4, MoveTyped

\* A serialization failure keeps the types.
LEMMA RetryTyped ==
    ASSUME Typed, NEW p \in Requests,
           NEW pc \in TxPCs, NEW beginPC \in PCs \ TxPCs,
           SerializationFailure(p, pc, beginPC),
           LocalOK([req[p] EXCEPT !.pc = beginPC, !.tries = 0], Stored)
    PROVE  Typed'
<1> DEFINE r == [req[p] EXCEPT !.pc = beginPC, !.rows = {}, !.conflict = FALSE]
<1>1. req[p] \in Request /\ LocalOK(req[p], Stored)
  BY DEF Typed, TypeOK
<1>2. CASE req[p].tries < MaxTries
  <2>1. r \in Request
    BY <1>1 DEF Request
  <2>2. LocalOK(r, Stored)
    BY <1>1, <1>2 DEF LocalOK, Request
  <2>3. req' = [req EXCEPT ![p] = r]
    BY <1>2 DEF SerializationFailure, Typed, TypeOK
  <2> QED
    BY <2>1, <2>2, <2>3, MoveTyped DEF SerializationFailure
<1>3. CASE ~(req[p].tries < MaxTries)
  <2>1. req' = [req EXCEPT ![p] = Idle]
    BY <1>3 DEF SerializationFailure
  <2> QED
    BY <2>1, IdleIsRequest, IdleIsLocal, MoveTyped DEF SerializationFailure
<1> QED
  BY <1>2, <1>3

\* The initial states are well typed.
LEMMA TypingInit == Init => Typed
<1> SUFFICES ASSUME Init PROVE Typed
  OBVIOUS
<1>1. users \in [Users -> UserRow] /\ resets \in [Resets -> ResetRow]
  BY DEF Init, UserRow, ResetRow
<1>2. Stored = {} /\ tokens \in [{} -> TokenRow] /\ opened \in [{} -> Passwords]
  BY DEF Init, Stored
<1>3. req \in [Requests -> Request] /\ \A p \in Requests : req[p] = Idle
  BY IdleIsRequest DEF Init
<1> QED
  BY <1>1, <1>2, <1>3, IdleIsLocal DEF Init, Typed, TypeOK, Stored

\* The first call of a session handler keeps the types.
LEMMA TypingSessionCall ==
    ASSUME Typed, NEW p \in Requests, SessionCall(p)
    PROVE  Typed'
<1>1. ASSUME NEW u \in Users, NEW pw \in Passwords, LoginCheck(p, u, pw)
      PROVE  Typed'
  <2> DEFINE r == [Idle EXCEPT !.pc = "login_save", !.user = u, !.password = pw]
  <2>1. r \in Request
    BY IdleIsRequest DEF Request, PCs
  <2>2. LocalOK(r, Stored)
    BY DEF Idle, LocalOK, TokenPCs, TxPCs
  <2> QED
    BY <1>1, <2>1, <2>2, StartTyped DEF LoginCheck
<1>2. ASSUME NEW t \in Tokens, RefreshLookup(p, t)
      PROVE  Typed'
  <2> DEFINE pc == IF t \in expired THEN "revoke_one"
                   ELSE IF tokens[t].used \/ tokens[t].revoked
                   THEN "family_begin" ELSE "refresh_user"
             r == [Idle EXCEPT !.token = t, !.pc = pc]
  <2>1. pc \in {"revoke_one", "family_begin", "refresh_user"} /\ t \in Stored
    BY <1>2 DEF RefreshLookup
  <2>2. Start(p, "refresh", r)
    BY <1>2 DEF RefreshLookup
  <2> HIDE DEF pc
  <2>3. r \in Request
    BY <2>1, IdleIsRequest DEF Request, PCs
  <2>4. LocalOK(r, Stored)
    BY <2>1 DEF Idle, LocalOK, TokenPCs, TxPCs
  <2> HIDE DEF r
  <2> QED
    BY <1>2, <2>2, <2>3, <2>4, StartTyped DEF RefreshLookup
<1>3. ASSUME NEW t \in Tokens, NEW u \in Users, LogoutLookup(p, t, u)
      PROVE  Typed'
  <2> DEFINE r == [Idle EXCEPT !.pc = "revoke_one", !.token = t]
  <2>1. r \in Request
    BY IdleIsRequest DEF Request, PCs
  <2>2. LocalOK(r, Stored)
    BY <1>3 DEF LogoutLookup, Idle, LocalOK, TokenPCs, TxPCs
  <2> QED
    BY <1>3, <2>1, <2>2, StartTyped DEF LogoutLookup
<1> QED
  BY <1>1, <1>2, <1>3 DEF SessionCall

\* Each further call of a session handler keeps the types.
LEMMA TypingSessionStep ==
    ASSUME Typed, NEW p \in Requests, SessionStep(p)
    PROVE  Typed'
<1> USE DEF Typed
<1>0. /\ req[p] \in Request
      /\ LocalOK(req[p], Stored)
      /\ Stored \subseteq Tokens
      /\ tokens \in [Stored -> TokenRow]
      /\ opened \in [Stored -> Passwords]
  BY DEF TypeOK, Stored
<1>1. ASSUME LoginSave(p) PROVE Typed'
  <2>1. PICK t \in Tokens \ Stored, f \in Families :
          /\ tokens' = Inserted(tokens, t, NewToken(req[p].user, f, Nil))
          /\ opened' = Inserted(opened, t, req[p].password)
          /\ Committed(p, {})
    BY <1>1 DEF LoginSave
  <2>2. req[p].user \in Users /\ req[p].password \in Passwords
    BY <1>0, <1>1 DEF LoginSave, LocalOK
  <2>3. NewToken(req[p].user, f, Nil) \in TokenRow
    BY <2>2 DEF NewToken, TokenRow
  <2>4. tokens' \in [Stored \cup {t} -> TokenRow] /\ Stored' = Stored \cup {t}
    <3>1. /\ tokens' \in [Stored \cup {t} -> TokenRow]
          /\ DOMAIN tokens' = Stored \cup {t}
      BY <1>0, <2>1, <2>3 DEF Inserted
    <3> QED
      BY <3>1 DEF Stored
  <2>5. opened' \in [Stored \cup {t} -> Passwords]
    BY <1>0, <2>1, <2>2, InsertTyped
  <2> QED
    BY <1>0, <1>1, <2>1, <2>4, <2>5, CommittedTyped DEF LoginSave, TypeOK
<1>2. ASSUME RevokeOne(p) PROVE Typed'
  <2>1. tokens' \in [Stored -> TokenRow] /\ Stored' = Stored
    BY <1>0, <1>2, RevokeTyped DEF RevokeOne, Request, Reasons
  <2> QED
    BY <1>0, <1>2, <2>1, CommittedTyped DEF RevokeOne, TypeOK
<1>3. ASSUME FamilyBegin(p) PROVE Typed'
  <2> DEFINE R == Unrevoked(FamilyOf(req[p].token))
             r == [req[p] EXCEPT !.pc = "family_update", !.rows = R]
  <2>1. req' = [req EXCEPT ![p] = r] /\ req[p].pc = "family_begin"
    BY <1>3 DEF FamilyBegin
  <2>2. R \in SUBSET (Users \cup Tokens \cup Resets)
    BY <1>0 DEF Unrevoked, FamilyOf
  <2> HIDE DEF R
  <2>3. r \in Request
    BY <1>0, <2>2 DEF Request, PCs
  <2>4. LocalOK(r, Stored)
    BY <1>0, <2>1 DEF LocalOK, Request, TokenPCs, TxPCs
  <2> QED
    BY <1>3, <2>1, <2>3, <2>4, MoveTyped DEF FamilyBegin
<1>4. ASSUME FamilyUpdate(p) PROVE Typed'
  <2>1. tokens' \in [Stored -> TokenRow] /\ Stored' = Stored
    BY <1>0, <1>4, RevokeTyped DEF FamilyUpdate, Reasons
  <2> QED
    BY <1>0, <1>4, <2>1, CommittedTyped DEF FamilyUpdate, TypeOK
<1>5. ASSUME RefreshUser(p) PROVE Typed'
  <2>1. PICK r \in {[req[p] EXCEPT !.pc = "revoke_one", !.reason = "account_deleted"],
                    [req[p] EXCEPT !.pc = "revoke_one", !.reason = "account_disabled"],
                    [req[p] EXCEPT !.pc = "rotate_begin"]} :
          req' = [req EXCEPT ![p] = r]
    BY <1>5 DEF RefreshUser
  <2>2. r \in Request
    BY <1>0, <2>1 DEF Request, PCs, Reasons
  <2>3. LocalOK(r, Stored)
    <3>1. req[p].pc = "refresh_user" /\ req[p].token \in Stored
                                    /\ req[p].tries < MaxTries
      BY <1>0, <1>5 DEF RefreshUser, LocalOK, TokenPCs, TxPCs
    <3>2. r.pc \in {"revoke_one", "rotate_begin"} /\ r.token = req[p].token
                                                 /\ r.tries = req[p].tries
      BY <1>0, <2>1 DEF Request
    <3> QED
      BY <3>1, <3>2 DEF LocalOK, TokenPCs, TxPCs
  <2> QED
    BY <1>5, <2>1, <2>2, <2>3, MoveTyped DEF RefreshUser
<1>6. ASSUME RotateBegin(p) PROVE Typed'
  <2>1. req[p].pc = "rotate_begin" /\ req[p].token \in Stored
    BY <1>0, <1>6 DEF RotateBegin, LocalOK, TokenPCs
  <2>2. CASE tokens[req[p].token].used
    <3> DEFINE r == [req[p] EXCEPT !.pc = "family_begin"]
    <3>1. r \in Request /\ LocalOK(r, Stored)
      BY <1>0, <2>1 DEF Request, PCs, LocalOK, TokenPCs, TxPCs
    <3>2. req' = [req EXCEPT ![p] = r]
      BY <1>6, <2>2 DEF RotateBegin, Goto
    <3> QED
      BY <1>6, <3>1, <3>2, MoveTyped DEF RotateBegin
  <2>3. CASE ~tokens[req[p].token].used
    <3>1. LocalOK([req[p] EXCEPT !.pc = "rotate_commit"], Stored)
      BY <1>0, <2>1 DEF LocalOK, Request, TokenPCs, TxPCs
    <3>2. {req[p].token} \in SUBSET (Users \cup Tokens \cup Resets)
      BY <1>0, <2>1
    <3>3. BeginTx(p, "rotate_commit", {req[p].token})
      BY <1>6, <2>3 DEF RotateBegin
    <3> QED
      BY <1>6, <2>1, <3>1, <3>2, <3>3, BeginTxTyped DEF RotateBegin, TxPCs
  <2> QED
    BY <2>2, <2>3
<1>7. ASSUME RotateCommit(p) PROVE Typed'
  <2> DEFINE old == req[p].token
             row == NewToken(tokens[old].user, tokens[old].family, old)
  <2>1. old \in Stored
    BY <1>0, <1>7 DEF RotateCommit, LocalOK, TokenPCs
  <2>2. PICK t \in Tokens \ Stored :
          /\ tokens' = Inserted(MarkedUsed(old), t, row)
          /\ opened' = Inserted(opened, t, opened[old])
    BY <1>7 DEF RotateCommit
  <2>3. row \in TokenRow /\ opened[old] \in Passwords
    BY <1>0, <2>1 DEF NewToken, TokenRow
  <2>4. MarkedUsed(old) \in [Stored -> TokenRow]
    BY <1>0, <2>1 DEF MarkedUsed, TokenRow
  <2>5. tokens' \in [Stored \cup {t} -> TokenRow] /\ Stored' = Stored \cup {t}
    <3>1. /\ tokens' \in [Stored \cup {t} -> TokenRow]
          /\ DOMAIN tokens' = Stored \cup {t}
      BY <2>2, <2>3, <2>4 DEF Inserted
    <3> QED
      BY <3>1 DEF Stored
  <2>6. opened' \in [Stored \cup {t} -> Passwords]
    BY <1>0, <2>2, <2>3, InsertTyped
  <2> QED
    BY <1>0, <1>7, <2>5, <2>6, CommittedTyped DEF RotateCommit, TypeOK
<1>8. ASSUME RotateRetry(p) PROVE Typed'
  <2>1. LocalOK([req[p] EXCEPT !.pc = "rotate_begin", !.tries = 0], Stored)
    BY <1>0, <1>8 DEF RotateRetry, SerializationFailure, LocalOK, Request,
                      TokenPCs, TxPCs
  <2> QED
    BY <1>8, <2>1, RetryTyped DEF RotateRetry, PCs, TxPCs
<1> QED
  BY <1>1, <1>2, <1>3, <1>4, <1>5, <1>6, <1>7, <1>8 DEF SessionStep

\* The first call of an account handler keeps the types.
LEMMA TypingAccountCall ==
    ASSUME Typed, NEW p \in Requests, AccountCall(p)
    PROVE  Typed'
<1>1. ASSUME NEW u \in Users, NEW new \in Passwords, NEW current \in Passwords,
             ChangeCheck(p, u, current, new)
      PROVE  Typed'
  <2> DEFINE r == [Idle EXCEPT !.pc = "change_begin", !.user = u, !.password = new]
  <2>1. r \in Request
    BY IdleIsRequest DEF Request, PCs
  <2>2. LocalOK(r, Stored)
    BY DEF Idle, LocalOK, TokenPCs, TxPCs
  <2> QED
    BY <1>1, <2>1, <2>2, StartTyped DEF ChangeCheck
<1>2. ASSUME NEW c \in Resets, NEW new \in Passwords, ConfirmCheck(p, c, new)
      PROVE  Typed'
  <2> DEFINE u == resets[c].user
             r == [Idle EXCEPT !.pc = "confirm_begin", !.reset = c,
                               !.user = u, !.password = new]
  <2>1. u \in Users
    BY DEF Typed, TypeOK, ResetRow
  <2>2. Start(p, "confirm", r)
    BY <1>2 DEF ConfirmCheck
  <2> HIDE DEF u
  <2>3. r \in Request
    BY <2>1, IdleIsRequest DEF Request, PCs
  <2>4. LocalOK(r, Stored)
    BY <2>1 DEF Idle, LocalOK, TokenPCs, TxPCs
  <2> HIDE DEF r
  <2> QED
    BY <1>2, <2>2, <2>3, <2>4, StartTyped DEF ConfirmCheck
<1>3. ASSUME NEW u \in Users, DisableCheck(p, u)
      PROVE  Typed'
  <2> DEFINE r == [Idle EXCEPT !.pc = "disable_begin", !.user = u]
  <2>1. r \in Request
    BY IdleIsRequest DEF Request, PCs
  <2>2. LocalOK(r, Stored)
    BY DEF Idle, LocalOK, TokenPCs, TxPCs
  <2> QED
    BY <1>3, <2>1, <2>2, StartTyped DEF DisableCheck
<1>4. ASSUME NEW u \in Users, ReactivateCheck(p, u)
      PROVE  Typed'
  <2> DEFINE r == [Idle EXCEPT !.pc = "reactivate_update", !.user = u]
  <2>1. r \in Request
    BY IdleIsRequest DEF Request, PCs
  <2>2. LocalOK(r, Stored)
    BY DEF Idle, LocalOK, TokenPCs, TxPCs
  <2> QED
    BY <1>4, <2>1, <2>2, StartTyped DEF ReactivateCheck
<1> QED
  BY <1>1, <1>2, <1>3, <1>4 DEF AccountCall

\* A rollback keeps the types.
LEMMA RollbackTyped ==
    ASSUME Typed, NEW p \in Requests, Rollback(p),
           UNCHANGED <<users, tokens, resets, expired, opened>>
    PROVE  Typed'
BY IdleIsRequest, IdleIsLocal, MoveTyped DEF Rollback

\* Each further call of an account handler keeps the types.
LEMMA TypingAccountStep ==
    ASSUME Typed, NEW p \in Requests, AccountStep(p)
    PROVE  Typed'
<1> USE DEF Typed
<1> DEFINE u == req[p].user
<1>0. /\ req[p] \in Request
      /\ LocalOK(req[p], Stored)
      /\ Stored \subseteq Tokens
      /\ tokens \in [Stored -> TokenRow]
      /\ opened \in [Stored -> Passwords]
  BY DEF TypeOK, Stored
<1>1. ASSUME ChangeBegin(p) PROVE Typed'
  <2>1. CASE users[u].deleted
    BY <1>1, <2>1, RollbackTyped DEF ChangeBegin
  <2>2. CASE ~users[u].deleted
    <3> DEFINE rows == {u} \cup Unrevoked(TokensOf(u))
    <3>1. LocalOK([req[p] EXCEPT !.pc = "change_commit"], Stored)
      BY <1>0, <1>1 DEF ChangeBegin, LocalOK, Request, TokenPCs, TxPCs
    <3>2. rows \in SUBSET (Users \cup Tokens \cup Resets)
      BY <1>0, <1>1 DEF ChangeBegin, LocalOK, Unrevoked, TokensOf
    <3>3. BeginTx(p, "change_commit", rows)
      BY <1>1, <2>2 DEF ChangeBegin
    <3> HIDE DEF rows
    <3> QED
      BY <1>1, <3>1, <3>2, <3>3, BeginTxTyped DEF ChangeBegin, TxPCs
  <2> QED
    BY <2>1, <2>2
<1>2. ASSUME ChangeCommit(p) PROVE Typed'
  <2>1. tokens' \in [Stored -> TokenRow] /\ Stored' = Stored
    BY <1>0, <1>2, RevokeTyped DEF ChangeCommit, RevokeSessions, Reasons
  <2>2. users' \in [Users -> UserRow]
    BY <1>0, <1>2 DEF ChangeCommit, LocalOK, TypeOK, UserRow
  <2> QED
    BY <1>0, <1>2, <2>1, <2>2, CommittedTyped DEF ChangeCommit, TypeOK
<1>3. ASSUME ChangeRetry(p) PROVE Typed'
  <2>1. LocalOK([req[p] EXCEPT !.pc = "change_begin", !.tries = 0], Stored)
    BY <1>0, <1>3 DEF ChangeRetry, SerializationFailure, LocalOK, Request,
                      TokenPCs, TxPCs
  <2> QED
    BY <1>3, <2>1, RetryTyped DEF ChangeRetry, PCs, TxPCs
<1>4. ASSUME ConfirmBegin(p) PROVE Typed'
  <2>1. CASE resets[req[p].reset].used \/ users[u].deleted
    BY <1>4, <2>1, RollbackTyped DEF ConfirmBegin
  <2>2. CASE ~(resets[req[p].reset].used \/ users[u].deleted)
    <3> DEFINE rows == {u, req[p].reset} \cup {r \in Resets : resets[r].user = u /\ ~resets[r].used}
                           \cup Unrevoked(TokensOf(u))
    <3>1. LocalOK([req[p] EXCEPT !.pc = "confirm_commit"], Stored)
      BY <1>0, <1>4 DEF ConfirmBegin, LocalOK, Request, TokenPCs, TxPCs
    <3>2. rows \in SUBSET (Users \cup Tokens \cup Resets)
      BY <1>0, <1>4 DEF ConfirmBegin, LocalOK, Unrevoked, TokensOf
    <3>3. BeginTx(p, "confirm_commit", rows)
      BY <1>4, <2>2 DEF ConfirmBegin
    <3> HIDE DEF rows
    <3> QED
      BY <1>4, <3>1, <3>2, <3>3, BeginTxTyped DEF ConfirmBegin, TxPCs
  <2> QED
    BY <2>1, <2>2
<1>5. ASSUME ConfirmCommit(p) PROVE Typed'
  <2>1. tokens' \in [Stored -> TokenRow] /\ Stored' = Stored
    BY <1>0, <1>5, RevokeTyped DEF ConfirmCommit, RevokeSessions, Reasons
  <2>2. users' \in [Users -> UserRow]
    BY <1>0, <1>5 DEF ConfirmCommit, LocalOK, TypeOK, UserRow
  <2>3. resets' \in [Resets -> ResetRow]
    BY <1>5 DEF ConfirmCommit, TypeOK, ResetRow
  <2> QED
    BY <1>0, <1>5, <2>1, <2>2, <2>3, CommittedTyped DEF ConfirmCommit, TypeOK
<1>6. ASSUME ConfirmRetry(p) PROVE Typed'
  <2>1. LocalOK([req[p] EXCEPT !.pc = "confirm_begin", !.tries = 0], Stored)
    BY <1>0, <1>6 DEF ConfirmRetry, SerializationFailure, LocalOK, Request,
                      TokenPCs, TxPCs
  <2> QED
    BY <1>6, <2>1, RetryTyped DEF ConfirmRetry, PCs, TxPCs
<1>7. ASSUME DisableBegin(p) PROVE Typed'
  <2> DEFINE locked == IF u \in SuperAdmins THEN ActiveSuperAdmins ELSE {}
             refused == \/ u \in SuperAdmins /\ Cardinality(locked) <= 1
                        \/ users[u].status # "inactive" \/ users[u].deleted
             rows == {u} \cup locked \cup Unrevoked(TokensOf(u))
  <2>0. /\ req[p].pc = "disable_begin"
        /\ IF refused THEN Rollback(p) ELSE BeginTx(p, "disable_commit", rows)
        /\ UNCHANGED <<users, tokens, resets, expired, opened>>
    BY <1>7 DEF DisableBegin
  <2>1. rows \in SUBSET (Users \cup Tokens \cup Resets)
    BY <1>0, <2>0, RolesAssumption DEF LocalOK, Unrevoked, TokensOf,
                                       ActiveSuperAdmins
  <2>2. LocalOK([req[p] EXCEPT !.pc = "disable_commit"], Stored)
    BY <1>0, <2>0 DEF LocalOK, Request, TokenPCs, TxPCs
  <2> HIDE DEF refused, rows
  <2>3. CASE refused
    BY <2>0, <2>3, RollbackTyped
  <2>4. CASE ~refused
    BY <2>0, <2>1, <2>2, <2>4, BeginTxTyped DEF TxPCs
  <2> QED
    BY <2>3, <2>4
<1>8. ASSUME DisableCommit(p) PROVE Typed'
  <2>1. tokens' \in [Stored -> TokenRow] /\ Stored' = Stored
    BY <1>0, <1>8, RevokeTyped DEF DisableCommit, RevokeSessions, Reasons
  <2>2. users' \in [Users -> UserRow]
    BY <1>0, <1>8 DEF DisableCommit, LocalOK, TypeOK, UserRow, Statuses
  <2> QED
    BY <1>0, <1>8, <2>1, <2>2, CommittedTyped DEF DisableCommit, TypeOK
<1>9. ASSUME DisableRetry(p) PROVE Typed'
  <2>1. LocalOK([req[p] EXCEPT !.pc = "disable_begin", !.tries = 0], Stored)
    BY <1>0, <1>9 DEF DisableRetry, SerializationFailure, LocalOK, Request,
                      TokenPCs, TxPCs
  <2> QED
    BY <1>9, <2>1, RetryTyped DEF DisableRetry, PCs, TxPCs
<1>10. ASSUME ReactivateUpdate(p) PROVE Typed'
  <2>1. users' \in [Users -> UserRow]
    BY <1>0, <1>10 DEF ReactivateUpdate, LocalOK, TypeOK, UserRow, Statuses
  <2>2. PICK W : Committed(p, W)
    BY <1>10 DEF ReactivateUpdate
  <2>3. Stored' = Stored
    BY <1>10 DEF ReactivateUpdate, Stored
  <2> QED
    BY <1>0, <1>10, <2>1, <2>2, <2>3, CommittedTyped DEF ReactivateUpdate, TypeOK
<1> QED
  BY <1>1, <1>2, <1>3, <1>4, <1>5, <1>6, <1>7, <1>8, <1>9, <1>10 DEF AccountStep

\* Every step of the service keeps the types.
LEMMA TypingStep == Typed /\ [Next]_dbVars => Typed'
<1> SUFFICES ASSUME Typed, [Next]_dbVars PROVE Typed'
  OBVIOUS
<1>1. ASSUME NEW p \in Requests, Call(p) \/ Step(p) PROVE Typed'
  BY <1>1, TypingSessionCall, TypingAccountCall, TypingSessionStep,
     TypingAccountStep DEF Call, Step
<1>2. ASSUME NEW p \in Requests, Abort(p) PROVE Typed'
  BY <1>2, IdleIsRequest, IdleIsLocal, MoveTyped DEF Abort
<1>3. ASSUME NEW t \in Tokens, Expire(t) PROVE Typed'
  BY <1>3 DEF Expire, Typed, TypeOK, Stored
<1>4. ASSUME NEW u \in Users, DeleteAccount(u) PROVE Typed'
  <2>1. users' \in [Users -> UserRow]
    BY <1>4 DEF DeleteAccount, Typed, TypeOK, UserRow
  <2>2. req' \in [Requests -> Request]
    <3>1. ASSUME NEW q \in Requests
          PROVE  req[q] \in Request /\ [req[q] EXCEPT !.conflict = TRUE] \in Request
      BY DEF Typed, TypeOK, Request
    <3> QED
      BY <1>4, <3>1 DEF DeleteAccount
  <2>3. \A q \in Requests : Same(req[q], req'[q])
    BY <1>4 DEF DeleteAccount, Typed, TypeOK, Request, Same
  <2>4. \A q \in Requests : LocalOK(req'[q], Stored)
    BY <2>2, <2>3, LocalKept DEF Typed, TypeOK
  <2> QED
    BY <1>4, <2>1, <2>2, <2>4 DEF DeleteAccount, Typed, TypeOK, Stored
<1>5. CASE UNCHANGED dbVars
  BY <1>5 DEF dbVars, Typed, TypeOK, Stored
<1> QED
  BY <1>1, <1>2, <1>3, <1>4, <1>5 DEF Next

\* The tables and the local state of every request keep their types.
THEOREM TypeCorrect == Spec => []TypeOK
<1>1. Typed => TypeOK
  BY DEF Typed
<1> QED
  BY <1>1, TypingInit, TypingStep, PTL DEF Spec
=============================================================================
