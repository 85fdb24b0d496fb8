------------------------- MODULE AuthServiceProofs -------------------------
(***************************************************************************)
(* Proofs of the safety properties of AuthService for every value of its   *)
(* constants: any number of accounts, tokens, families and concurrent      *)
(* requests, and any bound on the retries of a transaction.                *)
(*                                                                         *)
(* The properties are not inductive by themselves.  What makes them so is  *)
(* Snapshot: as long as a transaction has not been told of a conflict, the *)
(* condition that its snapshot established still holds of the tables.      *)
(***************************************************************************)
EXTENDS AuthServiceTyping, FiniteSetTheorems

\* What the snapshot of request p's open transaction saw is still true.
SnapshotOK(p) ==
    /\ req[p].pc = "rotate_commit" =>
         req[p].token \in req[p].rows /\ ~tokens[req[p].token].used
    /\ req[p].pc = "confirm_commit" =>
         req[p].reset \in req[p].rows /\ ~resets[req[p].reset].used
    /\ (req[p].pc = "disable_commit" /\ req[p].user \in SuperAdmins) =>
         \E v \in ActiveSuperAdmins : v # req[p].user /\ v \in req[p].rows

Snapshot == \A p \in Requests : ~req[p].conflict => SnapshotOK(p)

\* A request that is about to revoke a family for reuse holds a token of it
\* that is spent or revoked, and touches no other family.
AlarmOK(p) ==
    req[p].pc \in {"family_begin", "family_update"} =>
        /\ tokens[req[p].token].used \/ tokens[req[p].token].revoked
        /\ req[p].pc = "family_update" => req[p].rows \subseteq FamilyOf(req[p].token)

Alarm == \A p \in Requests : AlarmOK(p)

Chain == RotationIsLinear /\ OneUnusedPerFamily

-----------------------------------------------------------------------------
(* Tokens only decay.                                                      *)

Decay ==
    \A t \in Stored :
        /\ t \in Stored'
        /\ tokens'[t].family = tokens[t].family
        /\ tokens[t].used => tokens'[t].used
        /\ tokens[t].revoked => /\ tokens'[t].revoked
                                /\ tokens'[t].reason = tokens[t].reason

\* The revoking UPDATEs only touch rows with revoked_at IS NULL.
LEMMA RevokeDecay ==
    ASSUME Typed, NEW S, NEW reason, RevokeTokens(S, reason)
    PROVE  Decay
BY DEF Typed, TypeOK, RevokeTokens, Unrevoked, Stored, Decay, TokenRow

\* An INSERT leaves the existing tokens as they are.
LEMMA InsertDecay ==
    ASSUME Typed, NEW t, t \notin Stored, NEW row, tokens' = Inserted(tokens, t, row)
    PROVE  Decay
BY DEF Inserted, Stored, Decay

\* A rotation only sets used_at of the old token and adds its successor.
LEMMA RotateDecay ==
    ASSUME Typed, NEW p \in Requests, RotateCommit(p)
    PROVE  Decay
<1>1. req[p].token \in Stored
  BY DEF Typed, LocalOK, RotateCommit, TokenPCs
<1>2. PICK t \in Tokens \ Stored, row \in {NewToken(tokens[req[p].token].user,
                                     tokens[req[p].token].family, req[p].token)} :
        tokens' = Inserted(MarkedUsed(req[p].token), t, row)
  BY DEF RotateCommit
<1> QED
  BY <1>1, <1>2 DEF Inserted, MarkedUsed, Stored, Decay, Typed, TypeOK, TokenRow

\* The actions that leave refresh_tokens alone.
LEMMA OtherSteps ==
    ASSUME Next
    PROVE  \/ UNCHANGED tokens
           \/ \E p \in Requests :
                \/ LoginSave(p) \/ RevokeOne(p) \/ FamilyUpdate(p) \/ RotateCommit(p)
                \/ ChangeCommit(p) \/ ConfirmCommit(p) \/ DisableCommit(p)
<1>1. ASSUME NEW p \in Requests, Call(p) PROVE UNCHANGED tokens
  BY <1>1 DEF Call, SessionCall, AccountCall, LoginCheck, RefreshLookup,
              LogoutLookup, ChangeCheck, ConfirmCheck, DisableCheck, ReactivateCheck
<1>2. ASSUME NEW p \in Requests, Step(p)
      PROVE  \/ UNCHANGED tokens
             \/ LoginSave(p) \/ RevokeOne(p) \/ FamilyUpdate(p) \/ RotateCommit(p)
             \/ ChangeCommit(p) \/ ConfirmCommit(p) \/ DisableCommit(p)
  BY <1>2 DEF Step, SessionStep, AccountStep, FamilyBegin, RefreshUser,
              RotateBegin, RotateRetry, ChangeBegin, ChangeRetry, ConfirmBegin,
              ConfirmRetry, DisableBegin, DisableRetry, ReactivateUpdate,
              SerializationFailure
<1>3. ASSUME NEW p \in Requests, Abort(p) PROVE UNCHANGED tokens
  BY <1>3 DEF Abort
<1>4. ASSUME NEW t \in Tokens, Expire(t) PROVE UNCHANGED tokens
  BY <1>4 DEF Expire
<1>5. ASSUME NEW u \in Users, DeleteAccount(u) PROVE UNCHANGED tokens
  BY <1>5 DEF DeleteAccount
<1> QED
  BY <1>1, <1>2, <1>3, <1>4, <1>5 DEF Next

\* Every step lets the existing tokens at most decay.
LEMMA DecayStep == Typed /\ [Next]_dbVars => Decay
<1> SUFFICES ASSUME Typed, [Next]_dbVars PROVE Decay
  OBVIOUS
<1>1. CASE UNCHANGED tokens
  BY <1>1 DEF Decay, Stored
<1>2. ASSUME NEW p \in Requests, LoginSave(p) PROVE Decay
  <2>1. PICK t \in Tokens \ Stored, f \in Families :
          tokens' = Inserted(tokens, t, NewToken(req[p].user, f, Nil))
    BY <1>2 DEF LoginSave
  <2> QED
    BY <2>1, InsertDecay
<1>3. ASSUME NEW p \in Requests,
             \/ RevokeOne(p) \/ FamilyUpdate(p)
             \/ ChangeCommit(p) \/ ConfirmCommit(p) \/ DisableCommit(p)
      PROVE  Decay
  BY <1>3, RevokeDecay DEF RevokeOne, FamilyUpdate, ChangeCommit, ConfirmCommit,
                           DisableCommit, RevokeSessions
<1>4. ASSUME NEW p \in Requests, RotateCommit(p) PROVE Decay
  BY <1>4, RotateDecay
<1>5. CASE UNCHANGED dbVars
  BY <1>1, <1>5 DEF dbVars
<1> QED
  BY <1>1, <1>2, <1>3, <1>4, <1>5, OtherSteps

\* No statement on refresh_tokens deletes a row, revives a spent or revoked
\* token, or rewrites the reason it was revoked for.
THEOREM Decays == Spec => TokensOnlyDecay
<1>1. Decay => \A t \in Stored :
                 /\ t \in DOMAIN tokens'
                 /\ tokens[t].used => tokens'[t].used
                 /\ tokens[t].revoked => /\ tokens'[t].revoked
                                         /\ tokens'[t].reason = tokens[t].reason
  BY DEF Decay, Stored
<1> QED
  BY <1>1, TypingInit, TypingStep, DecayStep, PTL DEF Spec, TokensOnlyDecay

-----------------------------------------------------------------------------
(* Snapshots stay true until a conflict is reported.                       *)

\* Outside the rows W, a step changes nothing that a snapshot relies on.
WritesOnly(W) ==
    /\ \A t \in Stored \ W : t \in Stored' /\ (tokens'[t].used => tokens[t].used)
    /\ \A r \in Resets \ W : resets'[r].used => resets[r].used
    /\ ActiveSuperAdmins \ W \subseteq ActiveSuperAdmins'

\* A step that writes only the rows W keeps every snapshot that it does not
\* invalidate by a conflict.
LEMMA SnapshotKept ==
    ASSUME Typed, Snapshot, NEW P, NEW W, Frame(P, W), WritesOnly(W),
           \A p \in P \cap Requests : ~req'[p].conflict => SnapshotOK(p)'
    PROVE  Snapshot'
<1> SUFFICES ASSUME NEW q \in Requests \ P, ~req'[q].conflict
             PROVE  SnapshotOK(q)'
  BY DEF Snapshot
<1>1. /\ Same(req[q], req'[q])
      /\ SnapshotOK(q)
      /\ req[q].pc \in TxPCs => req[q].rows \cap W = {}
      /\ LocalOK(req[q], Stored)
  BY DEF Frame, Snapshot, Typed
<1>2. CASE req[q].pc = "rotate_commit"
  BY <1>1, <1>2 DEF Same, SnapshotOK, WritesOnly, TxPCs, LocalOK, TokenPCs
<1>3. CASE req[q].pc = "confirm_commit"
  BY <1>1, <1>3 DEF Same, SnapshotOK, WritesOnly, TxPCs, LocalOK
<1>4. CASE req[q].pc = "disable_commit" /\ req[q].user \in SuperAdmins
  <2>1. PICK v \in ActiveSuperAdmins : v # req[q].user /\ v \in req[q].rows
    BY <1>1, <1>4 DEF SnapshotOK
  <2>2. v \in ActiveSuperAdmins'
    BY <1>1, <1>4, <2>1 DEF WritesOnly, TxPCs
  <2> QED
    BY <1>1, <1>4, <2>1, <2>2 DEF Same, SnapshotOK
<1> QED
  BY <1>1, <1>2, <1>3, <1>4 DEF Same, SnapshotOK

\* A step that changes only p's local state, to one that is not after a
\* snapshot on which anything is claimed.
LEMMA SnapshotMove ==
    ASSUME Typed, Snapshot, NEW p \in Requests, NEW W, Frame({p}, W), WritesOnly(W),
           req'[p].pc \notin {"rotate_commit", "confirm_commit", "disable_commit"}
    PROVE  Snapshot'
<1>1. SnapshotOK(p)'
  BY DEF SnapshotOK
<1> QED
  BY <1>1, SnapshotKept

\* A step that leaves the tables alone writes no row.
LEMMA UnchangedWrites ==
    ASSUME UNCHANGED <<users, tokens, resets>>
    PROVE  WritesOnly({})
BY DEF WritesOnly, Stored, ActiveSuperAdmins

\* A commit of the rows W keeps the snapshots of the other transactions.
LEMMA SnapshotCommitted ==
    ASSUME Typed, Snapshot, NEW p \in Requests, NEW W, Committed(p, W), WritesOnly(W)
    PROVE  Snapshot'
<1>1. req'[p] = Idle /\ Frame({p}, W)
  BY CommittedFrame DEF Typed, TypeOK
<1> QED
  BY <1>1, SnapshotMove DEF Idle

\* The revoking UPDATEs neither delete a token nor change its used_at.
LEMMA SnapshotRevoke ==
    ASSUME Typed, NEW S, NEW reason, RevokeTokens(S, reason)
    PROVE  \A t \in Stored : t \in Stored' /\ tokens'[t].used = tokens[t].used
BY DEF Typed, TypeOK, RevokeTokens, Stored, TokenRow

\* A request that moves without writing is a frame for all the others.
LEMMA MoveIsFrame ==
    ASSUME Typed, NEW p \in Requests, NEW r, req' = [req EXCEPT ![p] = r]
    PROVE  Frame({p}, {}) /\ req'[p] = r
BY DEF Frame, Same, Typed, TypeOK

\* A client's call moves p alone, into no transaction, and to the revocation of
\* a family only by a refresh.
LEMMA CallFrame ==
    ASSUME Typed, NEW p \in Requests, Call(p)
    PROVE  /\ Frame({p}, {})
           /\ req'[p].pc \notin TxPCs \cup {"family_update"}
           /\ req'[p].pc = "family_begin" => \E t \in Tokens : RefreshLookup(p, t)
<1> DEFINE Quiet == /\ Frame({p}, {})
                    /\ req'[p].pc \notin TxPCs \cup {"family_update"}
                    /\ req'[p].pc = "family_begin" => \E t \in Tokens : RefreshLookup(p, t)
<1>1. ASSUME NEW u, NEW pw, LoginCheck(p, u, pw) PROVE Quiet
  <2> DEFINE r == [Idle EXCEPT !.pc = "login_save", !.user = u, !.password = pw]
  <2>1. req' = [req EXCEPT ![p] = r]
    BY <1>1 DEF LoginCheck, Start
  <2>2. Frame({p}, {}) /\ req'[p] = r
    BY <2>1, MoveIsFrame
  <2>3. r.pc \notin TxPCs \cup {"family_begin", "family_update"}
    BY DEF Idle, TxPCs
  <2> QED
    BY <2>2, <2>3
<1>2. ASSUME NEW t \in Tokens, RefreshLookup(p, t) PROVE Quiet
  <2> DEFINE r == [Idle EXCEPT !.token = t, !.pc =
                          IF t \in expired THEN "revoke_one"
                          ELSE IF tokens[t].used \/ tokens[t].revoked
                          THEN "family_begin" ELSE "refresh_user"]
  <2>1. req' = [req EXCEPT ![p] = r]
    BY <1>2 DEF RefreshLookup, Start
  <2>2. Frame({p}, {}) /\ req'[p] = r
    BY <2>1, MoveIsFrame
  <2>3. r.pc \notin TxPCs \cup {"family_update"}
    BY DEF Idle, TxPCs
  <2> QED
    BY <1>2, <2>2, <2>3
<1>3. ASSUME NEW t, NEW u, LogoutLookup(p, t, u) PROVE Quiet
  <2> DEFINE r == [Idle EXCEPT !.pc = "revoke_one", !.token = t]
  <2>1. req' = [req EXCEPT ![p] = r]
    BY <1>3 DEF LogoutLookup, Start
  <2>2. Frame({p}, {}) /\ req'[p] = r
    BY <2>1, MoveIsFrame
  <2>3. r.pc \notin TxPCs \cup {"family_begin", "family_update"}
    BY DEF Idle, TxPCs
  <2> QED
    BY <2>2, <2>3
<1>4. ASSUME NEW u, NEW current, NEW new, ChangeCheck(p, u, current, new) PROVE Quiet
  <2> DEFINE r == [Idle EXCEPT !.pc = "change_begin", !.user = u, !.password = new]
  <2>1. req' = [req EXCEPT ![p] = r]
    BY <1>4 DEF ChangeCheck, Start
  <2>2. Frame({p}, {}) /\ req'[p] = r
    BY <2>1, MoveIsFrame
  <2>3. r.pc \notin TxPCs \cup {"family_begin", "family_update"}
    BY DEF Idle, TxPCs
  <2> QED
    BY <2>2, <2>3
<1>5. ASSUME NEW c, NEW new, ConfirmCheck(p, c, new) PROVE Quiet
  <2> DEFINE r == [Idle EXCEPT !.pc = "confirm_begin", !.reset = c,
                                !.user = resets[c].user, !.password = new]
  <2>1. req' = [req EXCEPT ![p] = r]
    BY <1>5 DEF ConfirmCheck, Start
  <2>2. Frame({p}, {}) /\ req'[p] = r
    BY <2>1, MoveIsFrame
  <2>3. r.pc \notin TxPCs \cup {"family_begin", "family_update"}
    BY DEF Idle, TxPCs
  <2> QED
    BY <2>2, <2>3
<1>6. ASSUME NEW u, DisableCheck(p, u) PROVE Quiet
  <2> DEFINE r == [Idle EXCEPT !.pc = "disable_begin", !.user = u]
  <2>1. req' = [req EXCEPT ![p] = r]
    BY <1>6 DEF DisableCheck, Start
  <2>2. Frame({p}, {}) /\ req'[p] = r
    BY <2>1, MoveIsFrame
  <2>3. r.pc \notin TxPCs \cup {"family_begin", "family_update"}
    BY DEF Idle, TxPCs
  <2> QED
    BY <2>2, <2>3
<1>7. ASSUME NEW u, ReactivateCheck(p, u) PROVE Quiet
  <2> DEFINE r == [Idle EXCEPT !.pc = "reactivate_update", !.user = u]
  <2>1. req' = [req EXCEPT ![p] = r]
    BY <1>7 DEF ReactivateCheck, Start
  <2>2. Frame({p}, {}) /\ req'[p] = r
    BY <2>1, MoveIsFrame
  <2>3. r.pc \notin TxPCs \cup {"family_begin", "family_update"}
    BY DEF Idle, TxPCs
  <2> QED
    BY <2>2, <2>3
<1> HIDE DEF Quiet
<1>8. Quiet
  BY <1>1, <1>2, <1>3, <1>4, <1>5, <1>6, <1>7 DEF Call, SessionCall, AccountCall
<1> QED
  BY <1>8 DEF Quiet

\* A call that reaches its handler keeps every snapshot.
LEMMA SnapshotCall ==
    ASSUME Typed, Snapshot, NEW p \in Requests, Call(p)
    PROVE  Snapshot'
<1>1. UNCHANGED <<users, tokens, resets>>
  BY DEF Call, SessionCall, AccountCall, LoginCheck, RefreshLookup,
         LogoutLookup, ChangeCheck, ConfirmCheck, DisableCheck, ReactivateCheck
<1> QED
  BY <1>1, CallFrame, UnchangedWrites, SnapshotMove DEF TxPCs

\* A retried transaction gives up its snapshot, the others keep theirs.
LEMMA SnapshotRetry ==
    ASSUME Typed, Snapshot, NEW p \in Requests, NEW pc,
           NEW beginPC \in {"rotate_begin", "change_begin", "confirm_begin", "disable_begin"},
           SerializationFailure(p, pc, beginPC)
    PROVE  Snapshot'
<1>1. PICK r \in {[req[p] EXCEPT !.pc = beginPC, !.rows = {}, !.conflict = FALSE], Idle} :
        req' = [req EXCEPT ![p] = r]
  BY DEF SerializationFailure
<1>2. req[p] \in Request
  BY DEF Typed, TypeOK
<1>3. r.pc \notin {"rotate_commit", "confirm_commit", "disable_commit"}
  <2>1. CASE r = Idle
    BY <2>1 DEF Idle
  <2>2. CASE r # Idle
    BY <1>1, <1>2, <2>2 DEF Request
  <2> QED
    BY <2>1, <2>2
<1> QED
  BY <1>1, <1>3, MoveIsFrame, UnchangedWrites, SnapshotMove DEF SerializationFailure

\* The steps of the session handlers keep every snapshot.
LEMMA SnapshotSessionStep ==
    ASSUME Typed, Snapshot, NEW p \in Requests, SessionStep(p)
    PROVE  Snapshot'
<1>0. req[p] \in Request /\ LocalOK(req[p], Stored)
  BY DEF Typed, TypeOK
<1>1. ASSUME LoginSave(p) PROVE Snapshot'
  <2>1. PICK t \in Tokens \ Stored, f \in Families :
          /\ tokens' = Inserted(tokens, t, NewToken(req[p].user, f, Nil))
          /\ Committed(p, {})
    BY <1>1 DEF LoginSave
  <2>2. WritesOnly({})
    BY <1>1, <2>1 DEF LoginSave, WritesOnly, Inserted, Stored, ActiveSuperAdmins
  <2> QED
    BY <2>1, <2>2, SnapshotCommitted
<1>2. ASSUME RevokeOne(p) \/ FamilyUpdate(p) PROVE Snapshot'
  <2>1. PICK W : Committed(p, W)
    BY <1>2 DEF RevokeOne, FamilyUpdate
  <2>2. \A t \in Stored : t \in Stored' /\ tokens'[t].used = tokens[t].used
    BY <1>2, SnapshotRevoke DEF RevokeOne, FamilyUpdate
  <2>3. WritesOnly(W)
    BY <1>2, <2>2 DEF RevokeOne, FamilyUpdate, WritesOnly, ActiveSuperAdmins
  <2> QED
    BY <2>1, <2>3, SnapshotCommitted
<1>3. ASSUME FamilyBegin(p) PROVE Snapshot'
  <2>1. PICK R : req' = [req EXCEPT ![p] = [req[p] EXCEPT !.pc = "family_update",
                                                          !.rows = R]]
    BY <1>3 DEF FamilyBegin
  <2> DEFINE r == [req[p] EXCEPT !.pc = "family_update", !.rows = R]
  <2>2. Frame({p}, {}) /\ req'[p] = r
    BY <2>1, MoveIsFrame
  <2>3. r.pc = "family_update"
    BY <1>0 DEF Request
  <2> QED
    BY <1>3, <2>2, <2>3, UnchangedWrites, SnapshotMove DEF FamilyBegin
<1>4. ASSUME RefreshUser(p) PROVE Snapshot'
  <2>1. PICK r \in {[req[p] EXCEPT !.pc = "revoke_one", !.reason = "account_deleted"],
                    [req[p] EXCEPT !.pc = "revoke_one", !.reason = "account_disabled"],
                    [req[p] EXCEPT !.pc = "rotate_begin"]} :
          req' = [req EXCEPT ![p] = r]
    BY <1>4 DEF RefreshUser
  <2>2. r.pc \in {"revoke_one", "rotate_begin"}
    BY <1>0, <2>1 DEF Request
  <2>3. Frame({p}, {}) /\ req'[p] = r
    BY <2>1, MoveIsFrame
  <2> QED
    BY <1>4, <2>2, <2>3, UnchangedWrites, SnapshotMove DEF RefreshUser
<1>5. ASSUME RotateBegin(p) PROVE Snapshot'
  <2>1. CASE tokens[req[p].token].used
    <3> DEFINE r == [req[p] EXCEPT !.pc = "family_begin"]
    <3>1. req' = [req EXCEPT ![p] = r]
      BY <1>5, <2>1 DEF RotateBegin, Goto
    <3>2. Frame({p}, {}) /\ req'[p] = r
      BY <3>1, MoveIsFrame
    <3>3. r.pc = "family_begin"
      BY <1>0 DEF Request
    <3> QED
      BY <1>5, <3>2, <3>3, UnchangedWrites, SnapshotMove DEF RotateBegin
  <2>2. CASE ~tokens[req[p].token].used
    <3> DEFINE r == [req[p] EXCEPT !.pc = "rotate_commit", !.rows = {req[p].token},
                                   !.conflict = FALSE, !.tries = req[p].tries + 1]
    <3>1. req' = [req EXCEPT ![p] = r]
      BY <1>5, <2>2 DEF RotateBegin, BeginTx
    <3>2. Frame({p}, {}) /\ req'[p] = r
      BY <3>1, MoveIsFrame
    <3>3. r.pc = "rotate_commit" /\ r.token = req[p].token /\ r.rows = {req[p].token}
      BY <1>0 DEF Request
    <3> HIDE DEF r
    <3>4. SnapshotOK(p)'
      BY <1>5, <2>2, <3>2, <3>3 DEF RotateBegin, SnapshotOK
    <3> QED
      BY <1>5, <3>2, <3>4, UnchangedWrites, SnapshotKept DEF RotateBegin
  <2> QED
    BY <2>1, <2>2
<1>6. ASSUME RotateCommit(p) PROVE Snapshot'
  <2> DEFINE old == req[p].token
  <2>1. PICK t \in Tokens \ Stored :
          tokens' = Inserted(MarkedUsed(old), t,
                             NewToken(tokens[old].user, tokens[old].family, old))
    BY <1>6 DEF RotateCommit
  <2>2. WritesOnly({old})
    BY <1>6, <2>1 DEF RotateCommit, WritesOnly, Inserted, MarkedUsed, Stored,
                      ActiveSuperAdmins
  <2> QED
    BY <1>6, <2>2, SnapshotCommitted DEF RotateCommit
<1>7. ASSUME RotateRetry(p) PROVE Snapshot'
  BY <1>7, SnapshotRetry DEF RotateRetry
<1> QED
  BY <1>1, <1>2, <1>3, <1>4, <1>5, <1>6, <1>7 DEF SessionStep

\* More than one working super_admin: there is one besides u.
LEMMA AnotherSuperAdmin ==
    ASSUME NEW u \in ActiveSuperAdmins, ~(Cardinality(ActiveSuperAdmins) <= 1)
    PROVE  \E v \in ActiveSuperAdmins : v # u
<1> SUFFICES ASSUME ~ \E v \in ActiveSuperAdmins : v # u PROVE FALSE
  OBVIOUS
<1>1. ActiveSuperAdmins = {u}
  OBVIOUS
<1>2. Cardinality({u}) = 1
  BY FS_Singleton
<1> QED
  BY <1>1, <1>2

\* The snapshot of a transaction begins: its state is p's, at pc, with rows.
LEMMA BeginTxFrame ==
    ASSUME Typed, NEW p \in Requests, NEW pc, NEW rows, BeginTx(p, pc, rows)
    PROVE  /\ Frame({p}, {})
           /\ req'[p].pc = pc
           /\ req'[p].rows = rows
           /\ req'[p].user = req[p].user
           /\ req'[p].reset = req[p].reset
<1> DEFINE r == [req[p] EXCEPT !.pc = pc, !.rows = rows, !.conflict = FALSE,
                               !.tries = req[p].tries + 1]
<1>1. Frame({p}, {}) /\ req'[p] = r
  BY MoveIsFrame DEF BeginTx
<1>2. r.pc = pc /\ r.rows = rows /\ r.user = req[p].user /\ r.reset = req[p].reset
  BY DEF Typed, TypeOK, Request
<1> QED
  BY <1>1, <1>2

\* A rollback keeps the snapshots of the other transactions.
LEMMA SnapshotRollback ==
    ASSUME Typed, Snapshot, NEW p \in Requests, Rollback(p),
           UNCHANGED <<users, tokens, resets>>
    PROVE  Snapshot'
<1>1. Frame({p}, {}) /\ req'[p] = Idle
  BY MoveIsFrame DEF Rollback
<1> QED
  BY <1>1, UnchangedWrites, SnapshotMove DEF Idle

\* The steps of the account handlers keep every snapshot.
LEMMA SnapshotAccountStep ==
    ASSUME Typed, Snapshot, NEW p \in Requests, AccountStep(p)
    PROVE  Snapshot'
<1> DEFINE u == req[p].user
<1>0. req[p] \in Request /\ LocalOK(req[p], Stored)
  BY DEF Typed, TypeOK
<1>1. ASSUME ChangeBegin(p) PROVE Snapshot'
  <2>1. CASE users[u].deleted
    BY <1>1, <2>1, SnapshotRollback DEF ChangeBegin
  <2>2. CASE ~users[u].deleted
    <3>1. PICK rows : BeginTx(p, "change_commit", rows)
      BY <1>1, <2>2 DEF ChangeBegin
    <3>2. Frame({p}, {}) /\ req'[p].pc = "change_commit"
      BY <3>1, BeginTxFrame
    <3> QED
      BY <1>1, <3>2, UnchangedWrites, SnapshotMove DEF ChangeBegin
  <2> QED
    BY <2>1, <2>2
<1>2. ASSUME ChangeCommit(p) PROVE Snapshot'
  <2>1. \A t \in Stored : t \in Stored' /\ tokens'[t].used = tokens[t].used
    BY <1>2, SnapshotRevoke DEF ChangeCommit, RevokeSessions
  <2>2. ActiveSuperAdmins \subseteq ActiveSuperAdmins'
    BY <1>2, RolesAssumption DEF ChangeCommit, ActiveSuperAdmins, Typed, TypeOK, UserRow
  <2>3. WritesOnly(req[p].rows)
    BY <1>2, <2>1, <2>2 DEF ChangeCommit, WritesOnly
  <2> QED
    BY <1>2, <2>3, SnapshotCommitted DEF ChangeCommit
<1>3. ASSUME ConfirmBegin(p) PROVE Snapshot'
  <2>1. CASE resets[req[p].reset].used \/ users[u].deleted
    BY <1>3, <2>1, SnapshotRollback DEF ConfirmBegin
  <2>2. CASE ~(resets[req[p].reset].used \/ users[u].deleted)
    <3> DEFINE rows == {u, req[p].reset} \cup {r \in Resets : resets[r].user = u /\ ~resets[r].used}
                           \cup Unrevoked(TokensOf(u))
    <3>1. BeginTx(p, "confirm_commit", rows)
      BY <1>3, <2>2 DEF ConfirmBegin
    <3>2. req[p].reset \in rows
      OBVIOUS
    <3> HIDE DEF rows
    <3>3. /\ Frame({p}, {})
          /\ req'[p].pc = "confirm_commit"
          /\ req'[p].rows = rows
          /\ req'[p].reset = req[p].reset
      BY <3>1, BeginTxFrame
    <3>4. SnapshotOK(p)'
      BY <1>3, <2>2, <3>2, <3>3 DEF ConfirmBegin, SnapshotOK
    <3> QED
      BY <1>3, <3>3, <3>4, UnchangedWrites, SnapshotKept DEF ConfirmBegin
  <2> QED
    BY <2>1, <2>2
<1>4. ASSUME ConfirmCommit(p) PROVE Snapshot'
  <2>1. \A t \in Stored : t \in Stored' /\ tokens'[t].used = tokens[t].used
    BY <1>4, SnapshotRevoke DEF ConfirmCommit, RevokeSessions
  <2>2. ActiveSuperAdmins \subseteq ActiveSuperAdmins'
    BY <1>4, RolesAssumption DEF ConfirmCommit, ActiveSuperAdmins, Typed, TypeOK, UserRow
  <2>3. WritesOnly(req[p].rows)
    BY <1>4, <2>1, <2>2 DEF ConfirmCommit, WritesOnly
  <2> QED
    BY <1>4, <2>3, SnapshotCommitted DEF ConfirmCommit
<1>5. ASSUME DisableBegin(p) PROVE Snapshot'
  <2> DEFINE locked == IF u \in SuperAdmins THEN ActiveSuperAdmins ELSE {}
             refused == \/ u \in SuperAdmins /\ Cardinality(locked) <= 1
                        \/ users[u].status # "inactive" \/ users[u].deleted
             rows == {u} \cup locked \cup Unrevoked(TokensOf(u))
  <2>0. /\ req[p].pc = "disable_begin"
        /\ IF refused THEN Rollback(p) ELSE BeginTx(p, "disable_commit", rows)
        /\ UNCHANGED <<users, tokens, resets, expired, opened>>
    BY <1>5 DEF DisableBegin
  <2>1. CASE refused
    BY <2>0, <2>1, SnapshotRollback
  <2>2. CASE ~refused
    <3>1. /\ Frame({p}, {})
          /\ req'[p].pc = "disable_commit"
          /\ req'[p].rows = rows
          /\ req'[p].user = u
      BY <2>0, <2>2, BeginTxFrame
    <3>2. ASSUME u \in SuperAdmins
          PROVE  \E v \in ActiveSuperAdmins : v # u /\ v \in rows
      <4>1. u \in ActiveSuperAdmins
        BY <2>2, <3>2 DEF ActiveSuperAdmins
      <4>2. ~(Cardinality(ActiveSuperAdmins) <= 1)
        BY <2>2, <3>2
      <4>3. PICK v \in ActiveSuperAdmins : v # u
        BY <4>1, <4>2, AnotherSuperAdmin
      <4> QED
        BY <3>2, <4>3
    <3>3. ActiveSuperAdmins' = ActiveSuperAdmins
      BY <2>0 DEF ActiveSuperAdmins
    <3> HIDE DEF rows, locked, refused
    <3>4. SnapshotOK(p)'
      BY <3>1, <3>2, <3>3 DEF SnapshotOK
    <3> QED
      BY <2>0, <3>1, <3>4, UnchangedWrites, SnapshotKept
  <2> QED
    BY <2>1, <2>2
<1>6. ASSUME DisableCommit(p) PROVE Snapshot'
  <2>1. \A t \in Stored : t \in Stored' /\ tokens'[t].used = tokens[t].used
    BY <1>6, SnapshotRevoke DEF DisableCommit, RevokeSessions
  <2>2. ActiveSuperAdmins \ {u} \subseteq ActiveSuperAdmins'
    BY <1>6 DEF DisableCommit, ActiveSuperAdmins, Typed, TypeOK
  <2>3. WritesOnly({u} \cup (req[p].rows \cap Stored))
    BY <1>6, <2>1, <2>2 DEF DisableCommit, WritesOnly
  <2> QED
    BY <1>6, <2>3, SnapshotCommitted DEF DisableCommit
<1>7. ASSUME ReactivateUpdate(p) PROVE Snapshot'
  <2>1. PICK W : Committed(p, W)
    BY <1>7 DEF ReactivateUpdate
  <2>2. ActiveSuperAdmins \subseteq ActiveSuperAdmins'
    BY <1>7, RolesAssumption DEF ReactivateUpdate, ActiveSuperAdmins, Typed, TypeOK,
                                 UserRow
  <2>3. WritesOnly(W)
    BY <1>7, <2>2 DEF ReactivateUpdate, WritesOnly, Stored
  <2> QED
    BY <2>1, <2>3, SnapshotCommitted
<1>8. ASSUME ChangeRetry(p) \/ ConfirmRetry(p) \/ DisableRetry(p) PROVE Snapshot'
  BY <1>8, SnapshotRetry DEF ChangeRetry, ConfirmRetry, DisableRetry
<1> QED
  BY <1>1, <1>2, <1>3, <1>4, <1>5, <1>6, <1>7, <1>8 DEF AccountStep

\* Every step keeps the snapshots of the transactions that can still commit.
LEMMA SnapshotStep == Typed /\ Snapshot /\ [Next]_dbVars => Snapshot'
<1> SUFFICES ASSUME Typed, Snapshot, [Next]_dbVars PROVE Snapshot'
  OBVIOUS
<1>1. ASSUME NEW p \in Requests, Call(p) \/ Step(p) PROVE Snapshot'
  BY <1>1, SnapshotCall, SnapshotSessionStep, SnapshotAccountStep DEF Step
<1>2. ASSUME NEW p \in Requests, Abort(p) PROVE Snapshot'
  <2>1. Frame({p}, {}) /\ req'[p] = Idle
    BY <1>2, MoveIsFrame DEF Abort
  <2> QED
    BY <1>2, <2>1, UnchangedWrites, SnapshotMove DEF Abort, Idle
<1>3. ASSUME NEW t \in Tokens, Expire(t) PROVE Snapshot'
  BY <1>3 DEF Expire, Snapshot, SnapshotOK, ActiveSuperAdmins
<1>4. ASSUME NEW u \in Users, DeleteAccount(u) PROVE Snapshot'
  <2>1. Frame({}, {u})
    BY <1>4 DEF DeleteAccount, Frame, Same, Typed, TypeOK, Request
  <2>2. WritesOnly({u})
    BY <1>4 DEF DeleteAccount, WritesOnly, ActiveSuperAdmins, Stored, Typed, TypeOK
  <2> QED
    BY <2>1, <2>2, SnapshotKept
<1>5. CASE UNCHANGED dbVars
  BY <1>5 DEF dbVars, Snapshot, SnapshotOK, ActiveSuperAdmins
<1> QED
  BY <1>1, <1>2, <1>3, <1>4, <1>5 DEF Next

\* No transaction is open initially.
LEMMA SnapshotInit == Init => Snapshot
BY DEF Init, Snapshot, SnapshotOK, Idle

-----------------------------------------------------------------------------
(* The last working super_admin.                                           *)

\* Every step leaves a working super_admin: the one that commits a
\* disabling has locked all of them and found two.
LEMMA SuperAdminStep ==
    ASSUME Typed, Snapshot, SuperAdminRemains, [Next]_dbVars
    PROVE  SuperAdminRemains'
<1>1. ASSUME NEW p \in Requests, DisableCommit(p) PROVE SuperAdminRemains'
  <2> DEFINE u == req[p].user
  <2>1. CASE u \in SuperAdmins
    <3>1. PICK v \in ActiveSuperAdmins : v # u
      BY <1>1, <2>1 DEF DisableCommit, Snapshot, SnapshotOK
    <3>2. v \in ActiveSuperAdmins'
      BY <1>1, <3>1 DEF DisableCommit, ActiveSuperAdmins, Typed, TypeOK
    <3> QED
      BY <3>2 DEF SuperAdminRemains
  <2>2. CASE u \notin SuperAdmins
    BY <1>1, <2>2 DEF DisableCommit, ActiveSuperAdmins, SuperAdminRemains, Typed, TypeOK
  <2> QED
    BY <2>1, <2>2
<1>2. ASSUME NEW p \in Requests,
             ChangeCommit(p) \/ ConfirmCommit(p) \/ ReactivateUpdate(p)
      PROVE  SuperAdminRemains'
  <2>1. ActiveSuperAdmins \subseteq ActiveSuperAdmins'
    BY <1>2, RolesAssumption DEF ChangeCommit, ConfirmCommit, ReactivateUpdate,
                                 ActiveSuperAdmins, Typed, TypeOK, UserRow
  <2> QED
    BY <2>1 DEF SuperAdminRemains
<1>3. ASSUME NEW u \in Users, DeleteAccount(u) PROVE SuperAdminRemains'
  <2>1. ActiveSuperAdmins \subseteq ActiveSuperAdmins'
    BY <1>3, RolesAssumption DEF DeleteAccount, ActiveSuperAdmins, Typed, TypeOK
  <2> QED
    BY <2>1 DEF SuperAdminRemains
<1>4. CASE UNCHANGED users
  BY <1>4 DEF SuperAdminRemains, ActiveSuperAdmins
<1>5. \/ UNCHANGED users
      \/ \E u \in Users : DeleteAccount(u)
      \/ \E p \in Requests : \/ ChangeCommit(p) \/ ConfirmCommit(p)
                             \/ DisableCommit(p) \/ ReactivateUpdate(p)
  <2>1. ASSUME NEW p \in Requests, Call(p) PROVE UNCHANGED users
    BY <2>1 DEF Call, SessionCall, AccountCall, LoginCheck, RefreshLookup,
                LogoutLookup, ChangeCheck, ConfirmCheck, DisableCheck, ReactivateCheck
  <2>2. ASSUME NEW p \in Requests, SessionStep(p) PROVE UNCHANGED users
    BY <2>2 DEF SessionStep, LoginSave, RevokeOne, FamilyBegin, FamilyUpdate,
                RefreshUser, RotateBegin, RotateCommit, RotateRetry,
                SerializationFailure
  <2>3. ASSUME NEW p \in Requests, AccountStep(p)
        PROVE  \/ UNCHANGED users
               \/ ChangeCommit(p) \/ ConfirmCommit(p)
               \/ DisableCommit(p) \/ ReactivateUpdate(p)
    BY <2>3 DEF AccountStep, ChangeBegin, ChangeRetry, ConfirmBegin, ConfirmRetry,
                DisableBegin, DisableRetry, SerializationFailure
  <2>4. ASSUME NEW p \in Requests, Abort(p) PROVE UNCHANGED users
    BY <2>4 DEF Abort
  <2>5. ASSUME NEW t \in Tokens, Expire(t) PROVE UNCHANGED users
    BY <2>5 DEF Expire
  <2>6. CASE UNCHANGED dbVars
    BY <2>6 DEF dbVars
  <2> QED
    BY <2>1, <2>2, <2>3, <2>4, <2>5, <2>6 DEF Next, Step
<1> QED
  BY <1>1, <1>2, <1>3, <1>4, <1>5

\* However many DisableAccount requests run at once, and with whatever other
\* requests, one working super_admin always remains.
THEOREM SuperAdminAlwaysRemains == Spec => []SuperAdminRemains
<1>1. Init => SuperAdminRemains
  BY DEF Init, SuperAdminRemains
<1>2. Typed /\ Snapshot /\ SuperAdminRemains /\ [Next]_dbVars => SuperAdminRemains'
  BY SuperAdminStep
<1> QED
  BY <1>1, <1>2, TypingInit, TypingStep, SnapshotInit, SnapshotStep, PTL DEF Spec

-----------------------------------------------------------------------------
(* The rotation chain.                                                     *)

\* A revocation touches no column that the chain depends on.
LEMMA ChainRevoke ==
    ASSUME Typed, Chain, NEW S, NEW reason, RevokeTokens(S, reason)
    PROVE  Chain'
<1>1. /\ Stored' = Stored
      /\ \A t \in Stored : /\ tokens'[t].used = tokens[t].used
                           /\ tokens'[t].parent = tokens[t].parent
                           /\ tokens'[t].family = tokens[t].family
                           /\ tokens'[t].user = tokens[t].user
  BY DEF Typed, TypeOK, RevokeTokens, Stored, TokenRow
<1>2. \A t \in Stored : tokens[t] \in TokenRow
  BY DEF Typed, TypeOK, Stored
<1>3. RotationIsLinear'
  BY <1>1 DEF Chain, RotationIsLinear
<1>4. OneUnusedPerFamily'
  BY <1>1 DEF Chain, OneUnusedPerFamily
<1> QED
  BY <1>3, <1>4 DEF Chain

\* A login starts a chain of its own.
LEMMA ChainLogin ==
    ASSUME Typed, Chain, NEW p \in Requests, LoginSave(p)
    PROVE  Chain'
<1>1. PICK t \in Tokens \ Stored, f \in Families :
        /\ \A s \in Stored : tokens[s].family # f
        /\ tokens' = Inserted(tokens, t, NewToken(req[p].user, f, Nil))
  BY DEF LoginSave
<1>2. /\ Stored' = Stored \cup {t}
      /\ \A s \in Stored : tokens'[s] = tokens[s]
      /\ tokens'[t].parent = Nil /\ tokens'[t].family = f /\ ~tokens'[t].used
  BY <1>1 DEF Inserted, NewToken, Stored
<1>3. \A s \in Stored : tokens'[s].family # f
  BY <1>1, <1>2
<1>4. RotationIsLinear'
  <2>1. \A s \in Stored' : tokens'[s].parent # Nil =>
          /\ tokens'[s].parent \in Stored'
          /\ tokens'[tokens'[s].parent].used
          /\ tokens'[tokens'[s].parent].family = tokens'[s].family
          /\ tokens'[tokens'[s].parent].user = tokens'[s].user
    BY <1>2 DEF Chain, RotationIsLinear
  <2>2. \A r, s \in Stored' :
          /\ tokens'[r].family = tokens'[s].family
          /\ tokens'[r].parent = tokens'[s].parent
          => r = s
    BY <1>2, <1>3 DEF Chain, RotationIsLinear
  <2>3. \A s \in Stored' : tokens'[s].used => \E r \in Stored' : tokens'[r].parent = s
    BY <1>2 DEF Chain, RotationIsLinear
  <2> QED
    BY <2>1, <2>2, <2>3 DEF RotationIsLinear
<1>5. OneUnusedPerFamily'
  BY <1>2, <1>3 DEF Chain, OneUnusedPerFamily
<1> QED
  BY <1>4, <1>5 DEF Chain

\* A rotation adds a link at the end of its chain: its snapshot, still valid,
\* found the old token unused.
LEMMA ChainRotate ==
    ASSUME Typed, Snapshot, Chain, NEW p \in Requests, RotateCommit(p)
    PROVE  Chain'
<1> DEFINE old == req[p].token
<1>1. old \in Stored /\ old \in Tokens /\ ~tokens[old].used
  BY DEF RotateCommit, Typed, TypeOK, LocalOK, TokenPCs, Snapshot, SnapshotOK, Stored
<1>2. PICK t \in Tokens \ Stored :
        tokens' = Inserted(MarkedUsed(old), t,
                           NewToken(tokens[old].user, tokens[old].family, old))
  BY DEF RotateCommit
<1>3. /\ Stored' = Stored \cup {t}
      /\ \A s \in Stored : /\ tokens'[s].parent = tokens[s].parent
                           /\ tokens'[s].family = tokens[s].family
                           /\ tokens'[s].user = tokens[s].user
                           /\ s # old => tokens'[s].used = tokens[s].used
      /\ tokens'[old].used
      /\ tokens'[t].parent = old
      /\ tokens'[t].family = tokens[old].family
      /\ tokens'[t].user = tokens[old].user
      /\ ~tokens'[t].used
  BY <1>1, <1>2 DEF Inserted, MarkedUsed, NewToken, Stored, Typed, TypeOK, TokenRow
<1>4. old # Nil
  BY <1>1, NilAssumption
<1>5. \A s \in Stored : tokens[s].parent # old
  BY <1>1, <1>4 DEF Chain, RotationIsLinear
<1>6. RotationIsLinear'
  <2>1. \A s \in Stored' : tokens'[s].parent # Nil =>
          /\ tokens'[s].parent \in Stored'
          /\ tokens'[tokens'[s].parent].used
          /\ tokens'[tokens'[s].parent].family = tokens'[s].family
          /\ tokens'[tokens'[s].parent].user = tokens'[s].user
    BY <1>1, <1>3 DEF Chain, RotationIsLinear
  <2>2. \A r, s \in Stored' :
          /\ tokens'[r].family = tokens'[s].family
          /\ tokens'[r].parent = tokens'[s].parent
          => r = s
    BY <1>3, <1>5 DEF Chain, RotationIsLinear
  <2>3. \A s \in Stored' : tokens'[s].used => \E r \in Stored' : tokens'[r].parent = s
    BY <1>3 DEF Chain, RotationIsLinear
  <2> QED
    BY <2>1, <2>2, <2>3 DEF RotationIsLinear
<1>7. OneUnusedPerFamily'
  BY <1>1, <1>3 DEF Chain, OneUnusedPerFamily
<1> QED
  BY <1>6, <1>7 DEF Chain

\* Every step keeps the families linear.
LEMMA ChainStep == Typed /\ Snapshot /\ Chain /\ [Next]_dbVars => Chain'
<1> SUFFICES ASSUME Typed, Snapshot, Chain, [Next]_dbVars PROVE Chain'
  OBVIOUS
<1>1. CASE UNCHANGED tokens
  BY <1>1 DEF Chain, RotationIsLinear, OneUnusedPerFamily, Stored
<1>2. ASSUME NEW p \in Requests,
             \/ RevokeOne(p) \/ FamilyUpdate(p)
             \/ ChangeCommit(p) \/ ConfirmCommit(p) \/ DisableCommit(p)
      PROVE  Chain'
  BY <1>2, ChainRevoke DEF RevokeOne, FamilyUpdate, ChangeCommit, ConfirmCommit,
                           DisableCommit, RevokeSessions
<1>3. CASE UNCHANGED dbVars
  BY <1>1, <1>3 DEF dbVars
<1> QED
  BY <1>1, <1>2, <1>3, ChainLogin, ChainRotate, OtherSteps

\* Types, snapshots and chains hold of every reachable state.
LEMMA ChainInvariant == Spec => [](Typed /\ Snapshot /\ Chain)
<1>1. Init => Chain
  BY DEF Init, Chain, RotationIsLinear, OneUnusedPerFamily, Stored
<1> QED
  BY <1>1, TypingInit, TypingStep, SnapshotInit, SnapshotStep, ChainStep, PTL DEF Spec

\* Racing refreshes never fork a session: every token has at most one
\* successor, recorded in the same transaction that spends it.
THEOREM RotationAlwaysLinear == Spec => []RotationIsLinear
<1>1. Chain => RotationIsLinear
  BY DEF Chain
<1> QED
  BY <1>1, ChainInvariant, PTL

\* A session never has two tokens that could both still be rotated.
THEOREM AtMostOneUnused == Spec => []OneUnusedPerFamily
<1>1. Chain => OneUnusedPerFamily
  BY DEF Chain
<1> QED
  BY <1>1, ChainInvariant, PTL

-----------------------------------------------------------------------------
(* Reuse alarms.                                                           *)

\* Tokens that only decay keep the grounds of every pending alarm.
LEMMA AlarmKept ==
    ASSUME Typed, Alarm, Decay, NEW P, Frame(P, {}),
           \A p \in P \cap Requests : AlarmOK(p)'
    PROVE  Alarm'
<1> SUFFICES ASSUME NEW q \in Requests \ P PROVE AlarmOK(q)'
  BY DEF Alarm
<1> SUFFICES ASSUME req'[q].pc \in {"family_begin", "family_update"}
             PROVE  AlarmOK(q)'
  BY DEF AlarmOK
<1>1. Same(req[q], req'[q]) /\ AlarmOK(q) /\ LocalOK(req[q], Stored)
  BY DEF Frame, Alarm, Typed
<1>2. req[q].token \in Stored /\ req[q].pc = req'[q].pc /\ req[q].token = req'[q].token
      /\ req'[q].rows = req[q].rows
  BY <1>1 DEF LocalOK, TokenPCs, Same
<1>3. tokens'[req[q].token].used \/ tokens'[req[q].token].revoked
  BY <1>1, <1>2 DEF AlarmOK, Decay
<1>4. FamilyOf(req[q].token) \subseteq FamilyOf(req[q].token)'
  BY <1>2 DEF FamilyOf, Decay
<1>5. req[q].pc = "family_update" => (req[q].rows \subseteq FamilyOf(req[q].token))'
  BY <1>1, <1>2, <1>4 DEF AlarmOK
<1> QED
  BY <1>2, <1>3, <1>5 DEF AlarmOK

\* What a step does to the local state of p, as far as alarms go.
LEMMA StepFrame ==
    ASSUME Typed, NEW p \in Requests, Step(p) \/ Abort(p)
    PROVE  /\ Frame({p}, {})
           /\ req'[p].pc = "family_begin" => RotateBegin(p)
           /\ req'[p].pc = "family_update" => FamilyBegin(p)
<1> DEFINE Quiet == Frame({p}, {}) /\ req'[p].pc \notin {"family_begin", "family_update"}
<1>0. req[p] \in Request
  BY DEF Typed, TypeOK
<1>1. ASSUME NEW W, Committed(p, W) PROVE Quiet
  <2>1. req'[p] = Idle /\ Frame({p}, W)
    BY <1>1, CommittedFrame DEF Typed, TypeOK
  <2> QED
    BY <2>1 DEF Frame, Idle
<1>2. ASSUME NEW pc \in TxPCs, NEW rows, BeginTx(p, pc, rows) PROVE Quiet
  BY <1>2, BeginTxFrame DEF TxPCs
<1>3. ASSUME Rollback(p) PROVE Quiet
  <2>1. Frame({p}, {}) /\ req'[p] = Idle
    BY <1>3, MoveIsFrame DEF Rollback
  <2> QED
    BY <2>1 DEF Idle
<1>4. ASSUME NEW pc,
             NEW beginPC \in {"rotate_begin", "change_begin", "confirm_begin", "disable_begin"},
             SerializationFailure(p, pc, beginPC)
      PROVE  Quiet
  <2>1. PICK r \in {[req[p] EXCEPT !.pc = beginPC, !.rows = {}, !.conflict = FALSE], Idle} :
          req' = [req EXCEPT ![p] = r]
    BY <1>4 DEF SerializationFailure
  <2>2. CASE r = Idle
    <3>1. Frame({p}, {}) /\ req'[p] = Idle
      BY <2>1, <2>2, MoveIsFrame
    <3> QED
      BY <3>1 DEF Idle
  <2>3. CASE r # Idle
    <3>1. r.pc = beginPC
      BY <1>0, <2>1, <2>3 DEF Request
    <3> QED
      BY <2>1, <3>1, MoveIsFrame
  <2> QED
    BY <2>2, <2>3
<1>5. ASSUME FamilyBegin(p) PROVE Frame({p}, {}) /\ req'[p].pc = "family_update"
  <2>1. PICK R : req' = [req EXCEPT ![p] = [req[p] EXCEPT !.pc = "family_update",
                                                          !.rows = R]]
    BY <1>5 DEF FamilyBegin
  <2> DEFINE r == [req[p] EXCEPT !.pc = "family_update", !.rows = R]
  <2>2. Frame({p}, {}) /\ req'[p] = r
    BY <2>1, MoveIsFrame
  <2> QED
    BY <1>0, <2>2 DEF Request
<1>6. ASSUME RefreshUser(p) PROVE Quiet
  <2>1. PICK r \in {[req[p] EXCEPT !.pc = "revoke_one", !.reason = "account_deleted"],
                    [req[p] EXCEPT !.pc = "revoke_one", !.reason = "account_disabled"],
                    [req[p] EXCEPT !.pc = "rotate_begin"]} :
          req' = [req EXCEPT ![p] = r]
    BY <1>6 DEF RefreshUser
  <2>2. r.pc \in {"revoke_one", "rotate_begin"}
    BY <1>0, <2>1 DEF Request
  <2> QED
    BY <2>1, <2>2, MoveIsFrame
<1>7. ASSUME RotateBegin(p) PROVE Frame({p}, {}) /\ req'[p].pc # "family_update"
  <2>1. CASE tokens[req[p].token].used
    <3> DEFINE r == [req[p] EXCEPT !.pc = "family_begin"]
    <3>1. req' = [req EXCEPT ![p] = r]
      BY <1>7, <2>1 DEF RotateBegin, Goto
    <3>2. Frame({p}, {}) /\ req'[p] = r
      BY <3>1, MoveIsFrame
    <3> QED
      BY <1>0, <3>2 DEF Request
  <2>2. CASE ~tokens[req[p].token].used
    BY <1>2, <1>7, <2>2 DEF RotateBegin, TxPCs
  <2> QED
    BY <2>1, <2>2
<1>8. ASSUME Abort(p) PROVE Quiet
  <2>1. Frame({p}, {}) /\ req'[p] = Idle
    BY <1>8, MoveIsFrame DEF Abort
  <2> QED
    BY <2>1 DEF Idle
<1>9. ASSUME \/ LoginSave(p) \/ RevokeOne(p) \/ FamilyUpdate(p) \/ RotateCommit(p)
             \/ ChangeCommit(p) \/ ConfirmCommit(p) \/ DisableCommit(p)
             \/ ReactivateUpdate(p)
      PROVE  Quiet
  <2>1. PICK W : Committed(p, W)
    BY <1>9 DEF LoginSave, RevokeOne, FamilyUpdate, RotateCommit, ChangeCommit,
                ConfirmCommit, DisableCommit, ReactivateUpdate
  <2> QED
    BY <1>1, <2>1
<1>10. ASSUME ChangeBegin(p) \/ ConfirmBegin(p) \/ DisableBegin(p) PROVE Quiet
  <2>1. Rollback(p) \/ \E pc \in TxPCs : \E rows : BeginTx(p, pc, rows)
    BY <1>10 DEF ChangeBegin, ConfirmBegin, DisableBegin, TxPCs
  <2> QED
    BY <1>2, <1>3, <2>1
<1>11. ASSUME RotateRetry(p) \/ ChangeRetry(p) \/ ConfirmRetry(p) \/ DisableRetry(p)
       PROVE  Quiet
  BY <1>4, <1>11 DEF RotateRetry, ChangeRetry, ConfirmRetry, DisableRetry
<1> QED
  BY <1>5, <1>6, <1>7, <1>8, <1>9, <1>10, <1>11 DEF Step, SessionStep, AccountStep

\* Every step keeps the reason of every alarm, raised or about to be raised.
LEMMA AlarmStep ==
    ASSUME Typed, Alarm, [Next]_dbVars
    PROVE  Alarm'
<1>0. Decay
  BY DecayStep
<1>1. ASSUME NEW p \in Requests, Call(p) PROVE Alarm'
  <2>1. AlarmOK(p)'
    <3>1. ASSUME NEW t \in Tokens, RefreshLookup(p, t), req'[p].pc = "family_begin"
          PROVE  (tokens[req[p].token].used \/ tokens[req[p].token].revoked)'
      BY <3>1 DEF RefreshLookup, Start, Idle, Typed, TypeOK
    <3> QED
      BY <1>1, <3>1, CallFrame DEF AlarmOK
  <2> QED
    BY <1>0, <1>1, <2>1, CallFrame, AlarmKept
<1>2. ASSUME NEW p \in Requests, Step(p) \/ Abort(p) PROVE Alarm'
  <2>0. req[p] \in Request
    BY DEF Typed, TypeOK
  <2>1. ASSUME RotateBegin(p), req'[p].pc = "family_begin"
        PROVE  AlarmOK(p)'
    <3>1. tokens[req[p].token].used
      <4>1. ASSUME BeginTx(p, "rotate_commit", {req[p].token}) PROVE FALSE
        <5>1. req'[p].pc = "rotate_commit"
          BY <4>1, BeginTxFrame
        <5> QED
          BY <2>1, <5>1
      <4> QED
        BY <2>1, <4>1 DEF RotateBegin
    <3> DEFINE r == [req[p] EXCEPT !.pc = "family_begin"]
    <3>2. req' = [req EXCEPT ![p] = r]
      BY <2>1, <3>1 DEF RotateBegin, Goto
    <3>3. req'[p] = r
      BY <3>2, MoveIsFrame
    <3>4. r.token = req[p].token
      BY <2>0 DEF Request
    <3> QED
      BY <2>1, <3>1, <3>3, <3>4 DEF RotateBegin, AlarmOK
  <2>2. ASSUME FamilyBegin(p) PROVE AlarmOK(p)'
    <3> DEFINE R == Unrevoked(FamilyOf(req[p].token))
               r == [req[p] EXCEPT !.pc = "family_update", !.rows = R]
    <3>1. /\ req[p].pc = "family_begin"
          /\ req' = [req EXCEPT ![p] = r]
          /\ UNCHANGED tokens
      BY <2>2 DEF FamilyBegin
    <3>2. req'[p] = r
      BY <3>1, MoveIsFrame
    <3>3. r.pc = "family_update" /\ r.token = req[p].token /\ r.rows = R
      BY <2>0 DEF Request
    <3>4. R \subseteq FamilyOf(req[p].token)
      BY DEF Unrevoked
    <3>5. FamilyOf(req[p].token)' = FamilyOf(req[p].token)
      BY <3>1, <3>2, <3>3 DEF FamilyOf, Stored
    <3>6. tokens[req[p].token].used \/ tokens[req[p].token].revoked
      BY <3>1 DEF Alarm, AlarmOK
    <3> HIDE DEF r, R
    <3> QED
      BY <3>1, <3>2, <3>3, <3>4, <3>5, <3>6 DEF AlarmOK
  <2>3. AlarmOK(p)'
    <3>1. CASE req'[p].pc = "family_begin"
      BY <1>2, <2>1, <3>1, StepFrame
    <3>2. CASE req'[p].pc = "family_update"
      BY <1>2, <2>2, <3>2, StepFrame
    <3>3. CASE req'[p].pc \notin {"family_begin", "family_update"}
      BY <3>3 DEF AlarmOK
    <3> QED
      BY <3>1, <3>2, <3>3
  <2> QED
    BY <1>0, <1>2, <2>3, StepFrame, AlarmKept
<1>3. ASSUME NEW t \in Tokens, Expire(t) PROVE Alarm'
  BY <1>3 DEF Expire, Alarm, AlarmOK, FamilyOf, Stored
<1>4. ASSUME NEW u \in Users, DeleteAccount(u) PROVE Alarm'
  <2>1. Frame({}, {})
    BY <1>4 DEF DeleteAccount, Frame, Same, Typed, TypeOK, Request
  <2> QED
    BY <1>0, <2>1, AlarmKept
<1>5. CASE UNCHANGED dbVars
  BY <1>5 DEF dbVars, Alarm, AlarmOK, FamilyOf, Stored
<1> QED
  BY <1>1, <1>2, <1>3, <1>4, <1>5 DEF Next

\* What justifies a reuse alarm in the family of token s.
Cause(s) == tokens[s].used \/ (tokens[s].revoked /\ tokens[s].reason # "token_reuse_detected")

\* A token becomes revoked for reuse only in the family update of a request.
LEMMA NoFalseStep ==
    ASSUME Typed, Alarm, NoFalseReuseAlarm, [Next]_dbVars
    PROVE  NoFalseReuseAlarm'
<1> DEFINE reuse == "token_reuse_detected"
<1>0. Decay
  BY DecayStep
<1>a. \A t \in Stored : tokens[t].reason = reuse => \E s \in FamilyOf(t) : Cause(s)
  BY DEF NoFalseReuseAlarm, Cause
<1>1. ASSUME \A t \in Stored' : tokens'[t].reason = reuse =>
               t \in Stored /\ \E s \in FamilyOf(t) : Cause(s)
      PROVE  NoFalseReuseAlarm'
  <2> SUFFICES ASSUME NEW t \in Stored', tokens'[t].reason = reuse
               PROVE  \E s \in FamilyOf(t)' : Cause(s)'
    BY DEF NoFalseReuseAlarm, Cause
  <2>1. t \in Stored
    BY <1>1
  <2>2. PICK s \in FamilyOf(t) : Cause(s)
    BY <1>1
  <2>3. s \in Stored' /\ tokens'[s].family = tokens'[t].family /\ Cause(s)'
    BY <1>0, <2>1, <2>2 DEF FamilyOf, Decay, Cause
  <2> QED
    BY <2>3 DEF FamilyOf
<1>2. ASSUME \A t \in Stored' : tokens'[t].reason = reuse =>
               t \in Stored /\ tokens[t].reason = reuse
      PROVE  NoFalseReuseAlarm'
  BY <1>1, <1>2, <1>a
<1>3. CASE UNCHANGED tokens
  BY <1>2, <1>3 DEF Stored
<1>4. ASSUME NEW p \in Requests, LoginSave(p) PROVE NoFalseReuseAlarm'
  <2>1. PICK t \in Tokens \ Stored, f \in Families :
          tokens' = Inserted(tokens, t, NewToken(req[p].user, f, Nil))
    BY <1>4 DEF LoginSave
  <2>2. /\ Stored' = Stored \cup {t}
        /\ \A s \in Stored : tokens'[s] = tokens[s]
        /\ tokens'[t].reason = Nil
    BY <2>1 DEF Inserted, NewToken, Stored
  <2> QED
    BY <1>2, <2>2, NilAssumption DEF Reasons
<1>5. ASSUME NEW p \in Requests, RotateCommit(p) PROVE NoFalseReuseAlarm'
  <2> DEFINE old == req[p].token
  <2>1. old \in Stored
    BY <1>5 DEF RotateCommit, Typed, LocalOK, TokenPCs
  <2>2. PICK t \in Tokens \ Stored :
          tokens' = Inserted(MarkedUsed(old), t,
                             NewToken(tokens[old].user, tokens[old].family, old))
    BY <1>5 DEF RotateCommit
  <2>3. /\ Stored' = Stored \cup {t}
        /\ \A s \in Stored : tokens'[s].reason = tokens[s].reason
        /\ tokens'[t].reason = Nil
    BY <2>1, <2>2 DEF Inserted, MarkedUsed, NewToken, Stored, Typed, TypeOK, TokenRow
  <2> QED
    BY <1>2, <2>3, NilAssumption DEF Reasons
<1>6. ASSUME NEW S, NEW reason, reason # reuse, RevokeTokens(S, reason)
      PROVE  NoFalseReuseAlarm'
  <2>1. /\ Stored' = Stored
        /\ \A t \in Stored : tokens'[t].reason \in {tokens[t].reason, reason}
    BY <1>6 DEF RevokeTokens, Stored, Typed, TypeOK, TokenRow
  <2> QED
    BY <1>2, <1>6, <2>1
<1>7. ASSUME NEW p \in Requests, FamilyUpdate(p) PROVE NoFalseReuseAlarm'
  <2> DEFINE tok == req[p].token
  <2>1. tok \in Stored /\ (tokens[tok].used \/ tokens[tok].revoked)
        /\ req[p].rows \subseteq FamilyOf(tok)
    BY <1>7 DEF FamilyUpdate, Typed, LocalOK, TokenPCs, Alarm, AlarmOK
  <2>2. \E s \in FamilyOf(tok) : Cause(s)
    <3>1. CASE Cause(tok)
      BY <2>1, <3>1 DEF FamilyOf
    <3>2. CASE ~Cause(tok)
      BY <1>a, <2>1, <3>2 DEF Cause
    <3> QED
      BY <3>1, <3>2
  <2>3. /\ Stored' = Stored
        /\ \A t \in Stored \ req[p].rows : tokens'[t].reason = tokens[t].reason
    BY <1>7 DEF FamilyUpdate, RevokeTokens, Unrevoked, Stored
  <2>4. \A t \in req[p].rows : FamilyOf(t) = FamilyOf(tok)
    BY <2>1 DEF FamilyOf
  <2>5. \A t \in Stored' : tokens'[t].reason = reuse =>
          t \in Stored /\ \E s \in FamilyOf(t) : Cause(s)
    BY <1>a, <2>2, <2>3, <2>4
  <2> QED
    BY <1>1, <2>5
<1>8. ASSUME NEW p \in Requests, RevokeOne(p) PROVE NoFalseReuseAlarm'
  <2>1. req[p].reason # reuse
    BY NilAssumption DEF Typed, TypeOK, Request, Reasons
  <2> QED
    BY <1>6, <1>8, <2>1 DEF RevokeOne
<1>9. ASSUME NEW p \in Requests, ChangeCommit(p) \/ ConfirmCommit(p) \/ DisableCommit(p)
      PROVE  NoFalseReuseAlarm'
  <2>1. \/ RevokeTokens(req[p].rows \cap Stored, "password_changed")
        \/ RevokeTokens(req[p].rows \cap Stored, "account_disabled")
    BY <1>9 DEF ChangeCommit, ConfirmCommit, DisableCommit, RevokeSessions
  <2> QED
    BY <1>6, <2>1
<1>10. CASE UNCHANGED dbVars
  BY <1>3, <1>10 DEF dbVars
<1> QED
  BY <1>3, <1>4, <1>5, <1>7, <1>8, <1>9, <1>10, OtherSteps

\* No session is revoked as reused unless one of its tokens had really been
\* spent, or been revoked for another reason.
THEOREM NeverFalseReuseAlarm == Spec => []NoFalseReuseAlarm
<1>1. Init => Alarm /\ NoFalseReuseAlarm
  BY DEF Init, Alarm, AlarmOK, Idle, NoFalseReuseAlarm, Stored
<1>2. Typed /\ Alarm /\ NoFalseReuseAlarm /\ [Next]_dbVars
        => Alarm' /\ NoFalseReuseAlarm'
  BY AlarmStep, NoFalseStep
<1> QED
  BY <1>1, <1>2, TypingInit, TypingStep, PTL DEF Spec

-----------------------------------------------------------------------------
(* Password resets.                                                        *)

\* A confirmation that commits consumes its own token.
LEMMA ResetStep ==
    ASSUME Typed, Snapshot, [Next]_dbVars, NEW p \in Requests,
           req[p].pc = "confirm_commit", users' # users, req'[p] = Idle
    PROVE  /\ ~resets[req[p].reset].used
           /\ resets'[req[p].reset].used
<1>1. ASSUME NEW q \in Requests \ {p}, Call(q) \/ Step(q) \/ Abort(q) PROVE FALSE
  <2>1. Frame({q}, {})
    BY <1>1, CallFrame, StepFrame
  <2> QED
    BY <2>1 DEF Frame, Same, Idle
<1>2. ASSUME Call(p) PROVE FALSE
  BY <1>2 DEF Call, SessionCall, AccountCall, LoginCheck, RefreshLookup,
              LogoutLookup, ChangeCheck, ConfirmCheck, DisableCheck,
              ReactivateCheck, Start, Idle
<1>3. ASSUME Step(p) PROVE ConfirmCommit(p)
  BY <1>3 DEF Step, SessionStep, AccountStep, LoginSave, RevokeOne, FamilyBegin,
              FamilyUpdate, RefreshUser, RotateBegin, RotateCommit, RotateRetry,
              ChangeBegin, ChangeCommit, ChangeRetry, ConfirmBegin, ConfirmRetry,
              DisableBegin, DisableCommit, DisableRetry, ReactivateUpdate,
              SerializationFailure
<1>4. ASSUME ConfirmCommit(p)
      PROVE  ~resets[req[p].reset].used /\ resets'[req[p].reset].used
  BY <1>4 DEF ConfirmCommit, Snapshot, SnapshotOK, Typed, TypeOK, LocalOK, ResetRow
<1>5. ASSUME Abort(p) PROVE FALSE
  BY <1>5 DEF Abort
<1>6. ASSUME NEW t \in Tokens, Expire(t) PROVE FALSE
  BY <1>6 DEF Expire
<1>7. ASSUME NEW u \in Users, DeleteAccount(u) PROVE FALSE
  <2>1. req'[p].pc = "confirm_commit"
    BY <1>7 DEF DeleteAccount, Typed, TypeOK, Request
  <2> QED
    BY <2>1 DEF Idle
<1>8. CASE UNCHANGED dbVars
  BY <1>8 DEF dbVars
<1> QED
  BY <1>1, <1>2, <1>3, <1>4, <1>5, <1>6, <1>7, <1>8 DEF Next

\* A password is set by a reset only together with the consumption of a token
\* that was unused at that very moment.
THEOREM ResetsConsumeTokens == Spec => ResetConsumesToken
<1>1. Typed /\ Snapshot /\ [Next]_dbVars =>
        [\A p \in Requests :
           (req[p].pc = "confirm_commit" /\ users' # users /\ req'[p] = Idle)
           => /\ ~resets[req[p].reset].used
              /\ resets'[req[p].reset].used]_dbVars
  BY ResetStep
<1> QED
  BY <1>1, TypingInit, TypingStep, SnapshotInit, SnapshotStep, PTL
     DEF Spec, ResetConsumesToken
=============================================================================
