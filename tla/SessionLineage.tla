--------------------------- MODULE SessionLineage ---------------------------
(***************************************************************************)
(* What the refresh tokens promise, without requests, snapshots or rows: a *)
(* session belongs to one user and hands out one token at a time.  A       *)
(* renewal replaces that token by a new one and spends it for good;        *)
(* revocation may strike any tokens, is never undone, and does not keep a  *)
(* renewal that was under way from replacing a token it struck.            *)
(***************************************************************************)
EXTENDS FiniteSets

CONSTANTS Users, Tokens, Families

VARIABLES
    owner,      \* [Families -> users it was opened for]
    current,    \* [Families -> tokens that were not spent]
    spent,      \* [Families -> tokens that were]
    revoked     \* revoked tokens

vars == <<owner, current, spent, revoked>>

Issued == UNION {current[f] \cup spent[f] : f \in Families}

Init ==
    /\ owner = [f \in Families |-> {}]
    /\ current = [f \in Families |-> {}]
    /\ spent = [f \in Families |-> {}]
    /\ revoked = {}

Open(f, u, t) ==
    /\ current[f] = {} /\ spent[f] = {}
    /\ t \notin Issued
    /\ owner' = [owner EXCEPT ![f] = {u}]
    /\ current' = [current EXCEPT ![f] = {t}]
    /\ UNCHANGED <<spent, revoked>>

Renew(f, old, new) ==
    /\ current[f] = {old}
    /\ new \notin Issued
    /\ current' = [current EXCEPT ![f] = {new}]
    /\ spent' = [spent EXCEPT ![f] = @ \cup {old}]
    /\ UNCHANGED <<owner, revoked>>

Revoke ==
    /\ revoked \subseteq revoked' /\ revoked' \subseteq Issued
    /\ UNCHANGED <<owner, current, spent>>

Next ==
    \/ Revoke
    \/ \E f \in Families, u \in Users, t \in Tokens : Open(f, u, t)
    \/ \E f \in Families, old \in Tokens, new \in Tokens : Renew(f, old, new)

Spec == Init /\ [][Next]_vars
=============================================================================
