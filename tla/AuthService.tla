---------------------------- MODULE AuthService ----------------------------
(***************************************************************************)
(* The handlers of SessionHandlers and AccountHandlers running at once on  *)
(* the tables of AuthDb, and the properties of the whole.                  *)
(***************************************************************************)
EXTENDS SessionHandlers, AccountHandlers

Call(p) == SessionCall(p) \/ AccountCall(p)

Step(p) == SessionStep(p) \/ AccountStep(p)

Next ==
    \/ \E p \in Requests : Call(p) \/ Step(p) \/ Abort(p)
    \/ \E t \in Tokens : Expire(t)
    \/ \E u \in Users : DeleteAccount(u)

\* The Go scheduler runs every goroutine, and the ten second context timeout
\* ends a request that waits for ever; nothing makes a client call.
Fairness == \A p \in Requests : WF_dbVars(Step(p) \/ Abort(p))

Spec == Init /\ [][Next]_dbVars

FairSpec == Spec /\ Fairness

-----------------------------------------------------------------------------
\* Types of the tables and of the requests' local state.
TypeOK ==
    /\ users \in [Users -> UserRow]
    /\ DOMAIN tokens \subseteq Tokens
    /\ tokens \in [DOMAIN tokens -> TokenRow]
    /\ resets \in [Resets -> ResetRow]
    /\ expired \subseteq Tokens
    /\ req \in [Requests -> Request]
    /\ opened \in [DOMAIN tokens -> Passwords]

\* refresh_tokens: rotation is linear.  Whatever refreshes race, a token has at
\* most one successor, a token is used exactly when it has one, the successor
\* belongs to the same session, and every family has one root.
RotationIsLinear ==
    /\ \A t \in Stored : tokens[t].parent # Nil =>
         /\ tokens[t].parent \in Stored
         /\ tokens[tokens[t].parent].used
         /\ tokens[tokens[t].parent].family = tokens[t].family
         /\ tokens[tokens[t].parent].user = tokens[t].user
    /\ \A s, t \in Stored :
         /\ tokens[s].family = tokens[t].family
         /\ tokens[s].parent = tokens[t].parent
         => s = t
    /\ \A t \in Stored : tokens[t].used =>
         \E s \in Stored : tokens[s].parent = t

\* NFR-10: a session has at most one token that can still be rotated, however
\* many refreshes of it run at once.
OneUnusedPerFamily ==
    \A s, t \in Stored :
        /\ tokens[s].family = tokens[t].family
        /\ ~tokens[s].used /\ ~tokens[t].used
        => s = t

\* UC-006 E4: a session is torn down for reuse only if one of its tokens really
\* was spent, or had been revoked for another reason, before it was presented.
NoFalseReuseAlarm ==
    \A t \in Stored : tokens[t].reason = "token_reuse_detected" =>
        \E s \in FamilyOf(t) :
            \/ tokens[s].used
            \/ tokens[s].revoked /\ tokens[s].reason # "token_reuse_detected"

\* CND-14: concurrent DisableAccount requests never disable the last working
\* super_admin between them.
SuperAdminRemains == ActiveSuperAdmins # {}

\* The UPDATEs of refresh_tokens: no step deletes a token, makes a spent token
\* fresh, brings a revoked one back or overwrites the reason it was revoked for.
TokensOnlyDecay ==
    [][\A t \in Stored :
         /\ t \in DOMAIN tokens'
         /\ tokens[t].used => tokens'[t].used
         /\ tokens[t].revoked => /\ tokens'[t].revoked
                                 /\ tokens'[t].reason = tokens[t].reason]_dbVars

\* CND-18: a password reset takes effect only by consuming a token that was
\* unused until then: of racing confirmations of one token at most one wins.
ResetConsumesToken ==
    [][\A p \in Requests :
         (req[p].pc = "confirm_commit" /\ users' # users /\ req'[p] = Idle)
         => /\ ~resets[req[p].reset].used
            /\ resets'[req[p].reset].used]_dbVars

\* What the tables say of a session: whose it is, and its tokens.
OwnersOf(f) == {tokens[t].user : t \in {s \in Stored : tokens[s].family = f}}
UnspentOf(f) == {t \in Stored : tokens[t].family = f /\ ~tokens[t].used}
SpentOf(f) == {t \in Stored : tokens[t].family = f /\ tokens[t].used}
RevokedTokens == {t \in Stored : tokens[t].revoked}

\* The tables as SessionLineage sees them.
Lineage == INSTANCE SessionLineage WITH
    owner <- [f \in Families |-> OwnersOf(f)],
    current <- [f \in Families |-> UnspentOf(f)],
    spent <- [f \in Families |-> SpentOf(f)],
    revoked <- RevokedTokens

\* NFR-10, NFR-14: however the database calls of logins, refreshes, logouts and
\* account changes interleave, what they do to a session is an opening, a
\* renewal of its one unspent token, or a revocation.
SessionsAreLineages == Lineage!Spec

\* Every request ends: the retry loop of a transaction cannot go on for ever.
RequestsEnd == \A p \in Requests : req[p].pc # "idle" ~> req[p].pc = "idle"

-----------------------------------------------------------------------------
\* NFR-14: reuse detection revokes all records of the family.
FamilyRevokedTogether ==
    \A s, t \in Stored :
        /\ tokens[s].family = tokens[t].family
        /\ tokens[s].reason = "token_reuse_detected"
        => tokens[t].revoked

\* FR-10: a password change ends all sessions, so that every live session was
\* opened with the password the account has now.
SessionsKnowPassword ==
    \A t \in Stored : Live(t) => opened[t] = users[tokens[t].user].password
=============================================================================
