------------------------ MODULE SessionLineageProofs ------------------------
(***************************************************************************)
(* Proof that the handlers implement SessionLineage, for every value of    *)
(* the constants: whatever database calls interleave, a step opens a       *)
(* session, renews its one unspent token, revokes tokens, or leaves the    *)
(* sessions as they are.                                                   *)
(***************************************************************************)
EXTENDS AuthServiceProofs

\* What a step does to the rows, as far as SessionLineage looks at them.
SameSessions ==
    /\ Stored' = Stored
    /\ \A t \in Stored : /\ tokens'[t].user = tokens[t].user
                         /\ tokens'[t].family = tokens[t].family
                         /\ tokens'[t].used = tokens[t].used

\* Steps that keep the sessions keep their owners and their tokens.
LEMMA SameMapping ==
    ASSUME SameSessions
    PROVE  \A f : /\ OwnersOf(f)' = OwnersOf(f)
                  /\ UnspentOf(f)' = UnspentOf(f)
                  /\ SpentOf(f)' = SpentOf(f)
BY DEF SameSessions, OwnersOf, UnspentOf, SpentOf

\* The tokens that SessionLineage has issued are those of the table.
LEMMA IssuedAreStored == ASSUME TypeOK PROVE Lineage!Issued = Stored
<1>1. \A t \in Stored : tokens[t].family \in Families
  BY DEF TypeOK, Stored, TokenRow
<1>2. \A f \in Families : UnspentOf(f) \cup SpentOf(f) = {t \in Stored : tokens[t].family = f}
  BY <1>1 DEF UnspentOf, SpentOf, TypeOK, Stored, TokenRow
<1>3. Lineage!Issued = UNION {UnspentOf(f) \cup SpentOf(f) : f \in Families}
  BY DEF Lineage!Issued
<1> QED
  BY <1>1, <1>2, <1>3

\* At the start there are no sessions.
LEMMA LineageInit == Init => Lineage!Init
<1> SUFFICES ASSUME Init PROVE Lineage!Init
  OBVIOUS
<1>1. Stored = {}
  BY DEF Init, Stored
<1> QED
  BY <1>1 DEF Lineage!Init, OwnersOf, UnspentOf, SpentOf, RevokedTokens

\* The revoking UPDATEs revoke, and nothing else.
LEMMA RevokeIsRevoke ==
    ASSUME Typed, NEW S, NEW reason, RevokeTokens(S, reason)
    PROVE  Lineage!Revoke
<1>1. SameSessions
  BY DEF Typed, TypeOK, RevokeTokens, SameSessions, Stored, TokenRow
<1>2. RevokedTokens \subseteq RevokedTokens' /\ RevokedTokens' \subseteq Stored
  BY <1>1 DEF SameSessions, Typed, TypeOK, RevokeTokens, RevokedTokens, Unrevoked, Stored, TokenRow
<1>3. Lineage!Issued = Stored
  BY IssuedAreStored DEF Typed
<1> QED
  BY <1>1, <1>2, <1>3, SameMapping DEF Lineage!Revoke

\* A login opens a session.
LEMMA LoginIsOpen ==
    ASSUME Typed, NEW p \in Requests, LoginSave(p)
    PROVE  Lineage!Next
<1>1. PICK t \in Tokens \ Stored, f \in Families :
        /\ \A s \in Stored : tokens[s].family # f
        /\ tokens' = Inserted(tokens, t, NewToken(req[p].user, f, Nil))
  BY DEF LoginSave
<1>2. req[p].user \in Users
  BY DEF LoginSave, Typed, LocalOK
<1>3. /\ Stored' = Stored \cup {t}
      /\ \A s \in Stored : tokens'[s] = tokens[s]
      /\ tokens'[t].user = req[p].user /\ tokens'[t].family = f
      /\ ~tokens'[t].used /\ ~tokens'[t].revoked
  BY <1>1 DEF Inserted, NewToken, Stored
<1>4. /\ UnspentOf(f) = {} /\ SpentOf(f) = {}
      /\ OwnersOf(f)' = {req[p].user} /\ UnspentOf(f)' = {t} /\ SpentOf(f)' = {}
  BY <1>1, <1>3 DEF OwnersOf, UnspentOf, SpentOf
<1>5. \A g \in Families \ {f} :
        /\ OwnersOf(g)' = OwnersOf(g) /\ UnspentOf(g)' = UnspentOf(g) /\ SpentOf(g)' = SpentOf(g)
  BY <1>1, <1>3 DEF OwnersOf, UnspentOf, SpentOf
<1>6. RevokedTokens' = RevokedTokens
  BY <1>1, <1>3 DEF RevokedTokens
<1>7. Lineage!Issued = Stored
  BY IssuedAreStored DEF Typed
<1>8. Lineage!Open(f, req[p].user, t)
  BY <1>1, <1>4, <1>5, <1>6, <1>7 DEF Lineage!Open
<1> QED
  BY <1>1, <1>2, <1>8 DEF Lineage!Next

\* A rotation renews: its snapshot, still valid, found the old token unspent,
\* and a session has no other that is.
LEMMA RotateIsRenew ==
    ASSUME Typed, Snapshot, Chain, NEW p \in Requests, RotateCommit(p)
    PROVE  Lineage!Next
<1>1. PICK old \in Tokens, f \in Families :
        /\ old = req[p].token /\ f = tokens[old].family
        /\ old \in Stored /\ ~tokens[old].used
  BY DEF RotateCommit, Typed, TypeOK, LocalOK, TokenPCs, Snapshot, SnapshotOK, Stored, TokenRow
<1>2. PICK t \in Tokens \ Stored :
        tokens' = Inserted(MarkedUsed(old), t, NewToken(tokens[old].user, f, old))
  BY <1>1 DEF RotateCommit
<1>3. /\ Stored' = Stored \cup {t}
      /\ \A s \in Stored : /\ tokens'[s].user = tokens[s].user
                           /\ tokens'[s].family = tokens[s].family
                           /\ tokens'[s].revoked = tokens[s].revoked
                           /\ s # old => tokens'[s].used = tokens[s].used
      /\ tokens'[old].used
      /\ tokens'[t].user = tokens[old].user /\ tokens'[t].family = f
      /\ ~tokens'[t].used /\ ~tokens'[t].revoked
  BY <1>1, <1>2 DEF Inserted, MarkedUsed, NewToken, Stored, Typed, TypeOK, TokenRow
<1>4. UnspentOf(f) = {old}
  BY <1>1 DEF UnspentOf, Chain, OneUnusedPerFamily
<1>5. UnspentOf(f)' = {t} /\ SpentOf(f)' = SpentOf(f) \cup {old} /\ OwnersOf(f)' = OwnersOf(f)
  <2>1. UnspentOf(f)' = {t}
    BY <1>1, <1>3, <1>4 DEF UnspentOf
  <2>2. SpentOf(f)' = SpentOf(f) \cup {old}
    <3>1. \A s \in Stored : s \in SpentOf(f)' <=> s \in SpentOf(f) \/ s = old
      BY <1>1, <1>3 DEF SpentOf
    <3>2. SpentOf(f)' \subseteq Stored /\ SpentOf(f) \cup {old} \subseteq Stored
      BY <1>1, <1>3 DEF SpentOf
    <3> QED
      BY <3>1, <3>2
  <2>3. OwnersOf(f)' = OwnersOf(f)
    <3> DEFINE rows == {s \in Stored : tokens[s].family = f}
    <3>1. {s \in Stored' : tokens'[s].family = f} = rows \cup {t}
      BY <1>3
    <3>2. OwnersOf(f)' = {tokens'[s].user : s \in rows \cup {t}}
      BY <3>1 DEF OwnersOf
    <3>3. OwnersOf(f) = {tokens[s].user : s \in rows}
      BY DEF OwnersOf
    <3>4. old \in rows /\ \A s \in rows : tokens'[s].user = tokens[s].user
      BY <1>1, <1>3
    <3>5. tokens'[t].user = tokens[old].user
      BY <1>3
    <3> QED
      BY <3>2, <3>3, <3>4, <3>5
  <2> QED
    BY <2>1, <2>2, <2>3
<1>6. \A g \in Families \ {f} :
        /\ OwnersOf(g)' = OwnersOf(g) /\ UnspentOf(g)' = UnspentOf(g) /\ SpentOf(g)' = SpentOf(g)
  <2> SUFFICES ASSUME NEW g \in Families \ {f}
               PROVE  /\ OwnersOf(g)' = OwnersOf(g)
                      /\ UnspentOf(g)' = UnspentOf(g)
                      /\ SpentOf(g)' = SpentOf(g)
    OBVIOUS
  <2> DEFINE rows == {s \in Stored : tokens[s].family = g}
  <2>1. {s \in Stored' : tokens'[s].family = g} = rows
    BY <1>1, <1>3
  <2>2. \A s \in rows : tokens'[s].user = tokens[s].user /\ tokens'[s].used = tokens[s].used
    BY <1>1, <1>3
  <2>3. OwnersOf(g)' = {tokens'[s].user : s \in rows}
    BY <2>1 DEF OwnersOf
  <2>4. OwnersOf(g)' = OwnersOf(g)
    BY <2>2, <2>3 DEF OwnersOf
  <2>5. /\ UnspentOf(g)' = {s \in rows : ~tokens'[s].used}
        /\ SpentOf(g)' = {s \in rows : tokens'[s].used}
    BY <2>1 DEF UnspentOf, SpentOf
  <2>6. UnspentOf(g)' = UnspentOf(g) /\ SpentOf(g)' = SpentOf(g)
    BY <2>2, <2>5 DEF UnspentOf, SpentOf
  <2> QED
    BY <2>4, <2>6
<1>7. RevokedTokens' = RevokedTokens
  BY <1>2, <1>3 DEF RevokedTokens
<1>8. Lineage!Issued = Stored
  BY IssuedAreStored DEF Typed
<1>9. Lineage!Renew(f, old, t)
  BY <1>1, <1>2, <1>4, <1>5, <1>6, <1>7, <1>8 DEF Lineage!Renew
<1> QED
  BY <1>1, <1>2, <1>9 DEF Lineage!Next

\* Every step of the handlers is a step of SessionLineage, or none.
LEMMA LineageStep ==
    Typed /\ Snapshot /\ Chain /\ [Next]_dbVars => [Lineage!Next]_Lineage!vars
<1> SUFFICES ASSUME Typed, Snapshot, Chain, [Next]_dbVars
             PROVE  [Lineage!Next]_Lineage!vars
  OBVIOUS
<1>1. CASE UNCHANGED tokens
  BY <1>1 DEF Lineage!vars, Stored, OwnersOf, UnspentOf, SpentOf, RevokedTokens
<1>2. ASSUME NEW p \in Requests,
             \/ RevokeOne(p) \/ FamilyUpdate(p)
             \/ ChangeCommit(p) \/ ConfirmCommit(p) \/ DisableCommit(p)
      PROVE  Lineage!Next
  BY <1>2, RevokeIsRevoke DEF RevokeOne, FamilyUpdate, ChangeCommit, ConfirmCommit,
                              DisableCommit, RevokeSessions, Lineage!Next
<1>3. CASE UNCHANGED dbVars
  BY <1>1, <1>3 DEF dbVars
<1> QED
  BY <1>1, <1>2, <1>3, LoginIsOpen, RotateIsRenew, OtherSteps

\* NFR-10, NFR-14: the service implements SessionLineage for any number of
\* accounts, tokens, sessions and concurrent requests.
THEOREM ImplementsLineage == Spec => SessionsAreLineages
<1>1. Spec => [][Lineage!Next]_Lineage!vars
  BY ChainInvariant, LineageStep, PTL DEF Spec
<1> QED
  BY <1>1, LineageInit, PTL DEF Spec, SessionsAreLineages, Lineage!Spec
=============================================================================
